---- MODULE Spec2Model ----
(***************************************************************************)
(* Model of the pipeline execution engine of ecomm_processor:              *)
(* PipelineEngine.process, ProcessingContext (the error/warning ledger,    *)
(* quarantine set, step results) and the four built-in steps.              *)
(*                                                                         *)
(* A table (pandas DataFrame) is a record                                  *)
(*     [columns : Seq(STRING), rows : Seq([idx : Int, vals : [cols->Cell]])]*)
(* A cell is a record [kind, n, s]: kind "none" (Python None), "nan"       *)
(* (float NaN), "num" (a number, in n) or "str" (a string, in s).          *)
(***************************************************************************)
EXTENDS Integers, Sequences, FiniteSets, TLC

\* ------------------------------------------------------------------ bounds
MaxRows == 2
MaxSteps == 2
MaxResolves == 3
MaxEvaluations == 2
MaxRuns == 2
MaxOrders == 3
MaxFormats == 2
MaxEntries == 3

\* ------------------------------------------------------------------ cells
None == [kind |-> "none", n |-> 0, s |-> ""]
NaN == [kind |-> "nan", n |-> 0, s |-> ""]
Num(i) == [kind |-> "num", n |-> i, s |-> ""]
Str(x) == [kind |-> "str", n |-> 0, s |-> x]

IsNull(c) == c.kind \in {"none", "nan"}

\* ------------------------------------------------------------ sequence helpers
Range(q) == {q[j] : j \in 1..Len(q)}

SeqsUpTo(S, n) == UNION {[1..m -> S] : m \in 0..n}

\* ------------------------------------------------------------------ tables
NoTable == [columns |-> <<"<none>">>, rows |-> <<>>]

HasColumn(t, c) == c \in Range(t.columns)

NRows(t) == Len(t.rows)

Labels(t) == [j \in 1..Len(t.rows) |-> t.rows[j].idx]

\* DataFrame.copy(): an independent table with the same content.
CopyTable(t) == [columns |-> t.columns, rows |-> t.rows]

\* ----------------------------------------------------------------- ledger
INFO == "info"
WARNING == "warning"
ERROR == "error"
CRITICAL == "critical"

RowError(row_index, column, message, severity) ==
    [row_index |-> row_index, column |-> column, message |-> message,
     severity |-> severity]

NoColumn == "<no column>"

\* ProcessingContext.__init__: the state a run starts with. `log` is a history
\* of every entry handed to add_error, in call order, and `walks` counts the
\* walks of the global configuration; the program reads neither.
NewContext ==
    [current_step |-> "", current_row |-> 0,
     errors |-> <<>>, warnings |-> <<>>, quarantined_rows |-> {},
     step_results |-> <<>>, log |-> <<>>,
     ref_cache |-> <<>>, walks |-> 0]

\* A variant of the constructor with a slip: the ledger, the quarantine set,
\* the step results and the cache are class-level objects, shared with the
\* context made before.
CreateContextShared(last) ==
    [NewContext EXCEPT !.errors = last.errors, !.warnings = last.warnings,
                       !.log = last.log,
                       !.quarantined_rows = last.quarantined_rows,
                       !.step_results = last.step_results,
                       !.ref_cache = last.ref_cache]

\* process, lines 99-103: ProcessingContext(...) for a new run, `last` being
\* the context the engine's previous run used. __init__ builds every
\* collection anew, so nothing of `last` is taken over.
CreateContext(last) == NewContext

\* Variants of add_error with a slip: the CRITICAL severity filed with the
\* warnings, and an assignment in place of the append.
AddErrorMisfiled(ctx, message, column, row_index, severity) ==
    LET error == RowError(row_index, column, message, severity)
        logged == [ctx EXCEPT !.log = Append(@, error)]
    IN  IF severity = ERROR
        THEN [logged EXCEPT !.errors = Append(@, error)]
        ELSE [logged EXCEPT !.warnings = Append(@, error)]

AddErrorOverwriting(ctx, message, column, row_index, severity) ==
    LET error == RowError(row_index, column, message, severity)
        logged == [ctx EXCEPT !.log = Append(@, error)]
    IN  IF severity \in {ERROR, CRITICAL}
        THEN [logged EXCEPT !.errors = <<error>>]
        ELSE [logged EXCEPT !.warnings = <<error>>]

\* ProcessingContext.add_error with an explicit row_index.
AddErrorAt(ctx, message, column, row_index, severity) ==
    LET error == RowError(row_index, column, message, severity)
        logged == [ctx EXCEPT !.log = Append(@, error)]
    IN  IF severity \in {ERROR, CRITICAL}
        THEN [logged EXCEPT !.errors = Append(@, error)]
        ELSE [logged EXCEPT !.warnings = Append(@, error)]

\* ProcessingContext.add_error with row_index=None: the row cursor is used.
AddError(ctx, message, severity) ==
    AddErrorAt(ctx, message, NoColumn, ctx.current_row, severity)

\* ProcessingContext.add_warning.
AddWarning(ctx, message) == AddError(ctx, message, WARNING)

AddWarningAt(ctx, message, column, row_index) ==
    AddErrorAt(ctx, message, column, row_index, WARNING)

\* A variant of quarantine_row with a slip: the entry is recorded with the
\* default severity of add_error.
QuarantineRowAsError(ctx, row_index, reason) ==
    AddErrorAt([ctx EXCEPT !.quarantined_rows = @ \cup {row_index}],
               <<"Row quarantined: ", reason>>, NoColumn, row_index, ERROR)

\* ProcessingContext.quarantine_row.
QuarantineRow(ctx, row_index, reason) ==
    AddErrorAt([ctx EXCEPT !.quarantined_rows = @ \cup {row_index}],
               <<"Row quarantined: ", reason>>, NoColumn, row_index, WARNING)

\* A variant of add_step_result with a slip: the result is put in front.
AddStepResultInFront(ctx, result) == [ctx EXCEPT !.step_results = <<result>> \o @]

\* ProcessingContext.add_step_result.
AddStepResult(ctx, result) == [ctx EXCEPT !.step_results = Append(@, result)]

\* ProcessingContext.get_result.
GetResult(ctx, input_rows, output_rows, success) ==
    [success |-> success /\ Len(ctx.errors) = 0,
     input_rows |-> input_rows, output_rows |-> output_rows,
     step_results |-> ctx.step_results,
     errors |-> ctx.errors, warnings |-> ctx.warnings,
     quarantined_rows |-> ctx.quarantined_rows]

\* ------------------------------------------------------ reference resolution
\* A configuration string is modelled by its pieces: a reference marker
\* "$ref:p1.p2..." is <<"$ref:", p1, p2, ...>>, any other string <<text>>.
\* Python values: a config model with attributes, a dict, a leaf, or None.
Leaf(v) == [kind |-> "leaf", v |-> v]

PyNone == [kind |-> "none", v |-> 0]

Dict(items) == [kind |-> "dict", items |-> items]

\* GlobalConfig with its default tables (rates in hundredths).
GlobalConfig ==
    [kind |-> "model",
     attrs |-> [version |-> Leaf(1),
                conversion_rates |-> Dict([UAE |-> Leaf(367), KSA |-> Leaf(375)]),
                tax_divisors |-> Dict([UAE |-> Leaf(105), KSA |-> Leaf(115)])]]

\* ref.startswith("$ref:").
IsMarker(ref) == Len(ref) > 0 /\ ref[1] = "$ref:"

\* resolve_reference, lines 239-245: one step of the walk. None of the model's
\* path parts names an attribute of a dict or of a leaf.
WalkStep(obj, part) ==
    IF obj.kind = "model" /\ part \in DOMAIN obj.attrs
    THEN [raised |-> FALSE, obj |-> obj.attrs[part]]
    ELSE IF obj.kind = "dict"
    THEN [raised |-> FALSE,
          obj |-> IF part \in DOMAIN obj.items THEN obj.items[part] ELSE PyNone]
    ELSE [raised |-> TRUE, obj |-> PyNone]

\* The walk from the global configuration along parts[2..].
Walk(parts) ==
    LET at[k \in 1..Len(parts)] ==
            IF k = 1 THEN [raised |-> FALSE, obj |-> GlobalConfig]
            ELSE IF at[k - 1].raised THEN at[k - 1]
            ELSE WalkStep(at[k - 1].obj, parts[k])
    IN  at[Len(parts)]

\* self._ref_cache[ref] = obj.
CachePut(cache, ref, obj) ==
    [r \in (DOMAIN cache) \cup {ref} |-> IF r = ref THEN obj ELSE cache[r]]

\* A variant of resolve_reference with a slip: the resolved value is not
\* stored in the cache.
ResolveReferenceUncached(ctx, ref) ==
    IF ref \in DOMAIN ctx.ref_cache
    THEN [raised |-> FALSE, value |-> ctx.ref_cache[ref], ctx |-> ctx]
    ELSE IF ~IsMarker(ref)
    THEN [raised |-> FALSE, value |-> Leaf(ref), ctx |-> ctx]
    ELSE IF Len(ref) > 1 /\ ref[2] = "global"
    THEN [raised |-> Walk(Tail(ref)).raised,
          value |-> Walk(Tail(ref)).obj,
          ctx |-> [ctx EXCEPT !.walks = @ + 1]]
    ELSE [raised |-> TRUE, value |-> PyNone, ctx |-> ctx]

\* ProcessingContext.resolve_reference: [raised, value, ctx].
ResolveReference(ctx, ref) ==
    IF ref \in DOMAIN ctx.ref_cache
    THEN [raised |-> FALSE, value |-> ctx.ref_cache[ref], ctx |-> ctx]
    ELSE IF ~IsMarker(ref)
    THEN [raised |-> FALSE, value |-> Leaf(ref), ctx |-> ctx]
    ELSE IF Len(ref) > 1 /\ ref[2] = "global"
    THEN [raised |-> Walk(Tail(ref)).raised,
          value |-> Walk(Tail(ref)).obj,
          ctx |-> IF Walk(Tail(ref)).raised
                  THEN [ctx EXCEPT !.walks = @ + 1]
                  ELSE [ctx EXCEPT !.walks = @ + 1,
                                   !.ref_cache = CachePut(@, ref, Walk(Tail(ref)).obj)]]
    ELSE [raised |-> TRUE, value |-> PyNone, ctx |-> ctx]

\* ------------------------------------------------------------ field mappings
\* A FieldMapping under construction is [type, given]: the declared type and
\* the names of the attributes the configuration supplies (all others keep
\* their default None).
TransformTypes ==
    {"static", "direct", "lookup", "date", "phone", "formula",
     "currency_convert", "tax_exclude", "clean", "conditional"}

MappingAttributes ==
    {"value", "source_column", "lookup", "date", "phone", "formula",
     "currency", "tax", "clean", "conditional"}

\* type_config_map of validate_type_config.
TypeConfigMap(type) ==
    CASE type = "static" -> "value"
      [] type = "direct" -> "source_column"
      [] type = "lookup" -> "lookup"
      [] type = "date" -> "date"
      [] type = "phone" -> "phone"
      [] type = "formula" -> "formula"
      [] type = "currency_convert" -> "currency"
      [] type = "tax_exclude" -> "tax"
      [] type = "clean" -> "clean"
      [] type = "conditional" -> "conditional"

\* FieldMapping.validate_type_config: TRUE when it raises ValueError.
ValidateTypeConfig(mapping) ==
    /\ TypeConfigMap(mapping.type) \notin mapping.given
    /\ mapping.type # "static"
    /\ mapping.type = "direct"
    /\ "source_column" \notin mapping.given

\* ------------------------------------------------------------ transformers
\* A FieldMapping is [type, value, source_column, expression, coerce_numeric]:
\* value for static, source_column for direct, and for formula the
\* placeholders of an expression "{c1} + {c2} + ..." with coerce_numeric.
StaticMapping(v) ==
    [type |-> "static", value |-> v, source_column |-> "",
     expression |-> <<>>, coerce_numeric |-> TRUE]

DirectMapping(c) ==
    [type |-> "direct", value |-> None, source_column |-> c,
     expression |-> <<>>, coerce_numeric |-> TRUE]

FormulaMapping(refs, coerce) ==
    [type |-> "formula", value |-> None, source_column |-> "",
     expression |-> refs, coerce_numeric |-> coerce]

\* The strings of the model that Python's float() / pandas.to_numeric parse.
IsNumericText(s) == s \in {"7"}

ParseNumber(s) == CASE s = "7" -> 7 [] OTHER -> 0

\* BaseTransformer.get_column_value.
GetColumnValue(row, column, default) ==
    IF column \in DOMAIN row THEN row[column] ELSE default

\* pandas.to_numeric(value, errors="coerce") on a scalar.
ToNumeric(c) ==
    CASE c.kind = "num" -> c
      [] c.kind = "str" /\ IsNumericText(c.s) -> Num(ParseNumber(c.s))
      [] OTHER -> NaN

\* The outcome of one transformer call: it returns `value` or raises, and may
\* have recorded entries in the context.
Returned(ctx, v) == [raised |-> FALSE, value |-> v, ctx |-> ctx]
Raised(ctx) == [raised |-> TRUE, value |-> None, ctx |-> ctx]

\* StaticTransformer.transform.
StaticTransform(ctx, row, mapping, row_index) == Returned(ctx, mapping.value)

\* DirectTransformer.transform (no secondary transform configured).
DirectTransform(ctx, row, mapping, row_index) ==
    IF mapping.source_column = "" THEN Returned(ctx, None)
    ELSE LET value == GetColumnValue(row, mapping.source_column, None)
         IN  IF IsNull(value) THEN Returned(ctx, None) ELSE Returned(ctx, value)

\* FormulaTransformer.transform, lines 231-240: the text each placeholder is
\* replaced by. float(value) raises for None and for a non-numeric string;
\* float(NaN) gives the text "nan".
FormulaOperand(row, col_name, coerce_numeric) ==
    LET value == GetColumnValue(row, col_name, Num(0))
        coerced == IF coerce_numeric
                   THEN (IF IsNull(ToNumeric(value)) THEN Num(0) ELSE ToNumeric(value))
                   ELSE value
    IN  CASE coerced.kind = "num" -> [raises |-> FALSE, text |-> coerced]
          [] coerced.kind = "nan" -> [raises |-> FALSE, text |-> NaN]
          [] coerced.kind = "str" /\ IsNumericText(coerced.s) ->
                 [raises |-> FALSE, text |-> Num(ParseNumber(coerced.s))]
          [] OTHER -> [raises |-> TRUE, text |-> None]

\* FormulaTransformer.transform for an expression "{c1} + {c2} + ...".
FormulaTransform(ctx, row, mapping, row_index) ==
    LET refs == mapping.expression
        ops == [j \in 1..Len(refs) |->
                   FormulaOperand(row, refs[j], mapping.coerce_numeric)]
        sum[j \in 0..Len(refs)] ==
            IF j = 0 THEN 0 ELSE sum[j - 1] + ops[j].text.n
    IN  IF \E j \in 1..Len(refs) : ops[j].raises
        THEN Raised(ctx)
        ELSE IF \E j \in 1..Len(refs) : ops[j].text.kind = "nan"
        THEN \* eval of text holding "nan" fails inside the try block
             Returned(AddWarningAt(ctx, <<"Formula evaluation failed">>,
                                   NoColumn, row_index), None)
        ELSE Returned(ctx, Num(sum[Len(refs)]))

\* Python's eval(text, {"__builtins__": {}}, {}) on the expression texts of
\* the model, each a sequence of tokens: [raised, value]. Arithmetic, power
\* and comparison of two numbers, a parenthesised operation, a list and a
\* quoted literal, and a method call on a literal are evaluated; a name is
\* unbound (no builtins) and two adjacent numbers are a syntax error, so both
\* raise, like a division by zero. A quotient is kept as the pair (n, s).
IsNumberToken(t) == t \in {"0", "2", "6"}

NumberOf(t) == CASE t = "0" -> 0 [] t = "2" -> 2 [] t = "6" -> 6 [] OTHER -> 0

Power(a, b) == IF b = 0 THEN 1 ELSE IF b = 2 THEN a * a ELSE a * a * a * a * a * a

EvalRaises == [raised |-> TRUE, value |-> None]

EvalReturns(kind, n, text) ==
    [raised |-> FALSE, value |-> [kind |-> kind, n |-> n, s |-> text]]

BinaryOperation(x, op, y) ==
    CASE op = "+" -> EvalReturns("num", NumberOf(x) + NumberOf(y), "")
      [] op = "-" -> EvalReturns("num", NumberOf(x) - NumberOf(y), "")
      [] op = "*" -> EvalReturns("num", NumberOf(x) * NumberOf(y), "")
      [] op = "/" -> IF NumberOf(y) = 0 THEN EvalRaises
                     ELSE EvalReturns("ratio", NumberOf(x), y)
      [] op = "**" -> EvalReturns("num", Power(NumberOf(x), NumberOf(y)), "")
      [] op = "<" -> EvalReturns("bool", IF NumberOf(x) < NumberOf(y) THEN 1 ELSE 0, "")
      [] OTHER -> EvalRaises

PyEval(text) ==
    CASE Len(text) = 1 /\ IsNumberToken(text[1]) ->
            EvalReturns("num", NumberOf(text[1]), "")
      [] Len(text) = 3 /\ IsNumberToken(text[1]) /\ IsNumberToken(text[3]) ->
            BinaryOperation(text[1], text[2], text[3])
      [] Len(text) = 5 /\ text[1] = "(" /\ text[5] = ")"
            /\ IsNumberToken(text[2]) /\ IsNumberToken(text[4]) ->
            BinaryOperation(text[2], text[3], text[4])
      [] Len(text) = 3 /\ text[1] = "[" /\ text[3] = "]" /\ IsNumberToken(text[2]) ->
            EvalReturns("list", NumberOf(text[2]), "")
      [] Len(text) = 3 /\ text[1] = "'" /\ text[3] = "'" ->
            EvalReturns("str", 0, text[2])
      [] Len(text) = 7 /\ SubSeq(text, 3, 7) = <<")", ".", "__neg__", "(", ")">>
            /\ text[1] = "(" /\ IsNumberToken(text[2]) ->
            EvalReturns("num", 0 - NumberOf(text[2]), "")
      [] OTHER -> EvalRaises

\* FormulaTransformer.transform, lines 242-252, on a post-substitution text:
\* the value of eval, or one WARNING and None when eval raises.
EvaluateExpression(ctx, text, row_index) ==
    IF PyEval(text).raised
    THEN Returned(AddWarningAt(ctx, <<"Formula evaluation failed">>, NoColumn, row_index),
                  None)
    ELSE Returned(ctx, PyEval(text).value)

\* TransformerFactory.get_transformer(mapping.type).transform(...).
Transform(ctx, row, mapping, row_index) ==
    CASE mapping.type = "static" -> StaticTransform(ctx, row, mapping, row_index)
      [] mapping.type = "direct" -> DirectTransform(ctx, row, mapping, row_index)
      [] mapping.type = "formula" -> FormulaTransform(ctx, row, mapping, row_index)

\* ------------------------------------------------------------ transform step
\* Series.__setitem__: extended_row[field_name] = value.
SetItem(row, field_name, value) ==
    [c \in (DOMAIN row) \cup {field_name} |->
        IF c = field_name THEN value ELSE row[c]]

\* Variants of the row loop with a slip: every transformer is handed the
\* original row, and a raising transformer leaves no ledger entry.
TransformRowUnchained(ctx, row, mappings) ==
    LET Store(p, field_name, r) ==
            [views |-> Append(p.views, row.vals),
             values |-> Append(p.values, IF r.raised THEN None ELSE r.value),
             extended_row |-> row.vals,
             ctx |-> IF r.raised
                     THEN AddWarningAt(r.ctx, <<"Transform failed for ", field_name>>,
                                       field_name, r.ctx.current_row)
                     ELSE r.ctx]
        Call(p, field) ==
            Store(p, field.name,
                  Transform(p.ctx, row.vals, field.mapping, p.ctx.current_row))
        at[k \in 0..Len(mappings)] ==
            IF k = 0
            THEN [ctx |-> [ctx EXCEPT !.current_row = row.idx],
                  extended_row |-> row.vals, values |-> <<>>, views |-> <<>>]
            ELSE Call(at[k - 1], mappings[k])
    IN  at[Len(mappings)]

TransformRowSilent(ctx, row, mappings) ==
    LET Store(p, field_name, r) ==
            [views |-> Append(p.views, p.extended_row),
             values |-> Append(p.values, IF r.raised THEN None ELSE r.value),
             extended_row |-> SetItem(p.extended_row, field_name,
                                      IF r.raised THEN None ELSE r.value),
             ctx |-> r.ctx]
        Call(p, field) ==
            Store(p, field.name,
                  Transform(p.ctx, p.extended_row, field.mapping, p.ctx.current_row))
        at[k \in 0..Len(mappings)] ==
            IF k = 0
            THEN [ctx |-> [ctx EXCEPT !.current_row = row.idx],
                  extended_row |-> row.vals, values |-> <<>>, views |-> <<>>]
            ELSE Call(at[k - 1], mappings[k])
    IN  at[Len(mappings)]

\* TransformStep.execute, the body of the row loop: the mappings of one row,
\* in declaration order. `views` records the row handed to each transformer.
TransformRow(ctx, row, mappings) ==
    LET Store(p, field_name, r) ==
            [views |-> Append(p.views, p.extended_row),
             values |-> Append(p.values, IF r.raised THEN None ELSE r.value),
             extended_row |-> SetItem(p.extended_row, field_name,
                                      IF r.raised THEN None ELSE r.value),
             ctx |-> IF r.raised
                     THEN AddWarningAt(r.ctx, <<"Transform failed for ", field_name>>,
                                       field_name, r.ctx.current_row)
                     ELSE r.ctx]
        Call(p, field) ==
            Store(p, field.name,
                  Transform(p.ctx, p.extended_row, field.mapping, p.ctx.current_row))
        at[k \in 0..Len(mappings)] ==
            IF k = 0
            THEN [ctx |-> [ctx EXCEPT !.current_row = row.idx],
                  extended_row |-> row.vals, values |-> <<>>, views |-> <<>>]
            ELSE Call(at[k - 1], mappings[k])
    IN  at[Len(mappings)]

\* A variant of the step with a slip: the result keeps its default RangeIndex
\* (the index of the input is not copied).
TransformStepReindexed(ctx, df, config) ==
    LET mappings == config.mappings
        names == [k \in 1..Len(mappings) |-> mappings[k].name]
        Collect(p, j, r) ==
            [rows |-> Append(p.rows,
                        [idx |-> j - 1,
                         vals |-> [c \in Range(names) |->
                            r.values[CHOOSE k \in 1..Len(names) : names[k] = c]]]),
             views |-> Append(p.views, r.views),
             ctx |-> r.ctx]
        Row(p, j) == Collect(p, j, TransformRow(p.ctx, df.rows[j], mappings))
        at[j \in 0..NRows(df)] ==
            IF j = 0
            THEN [ctx |-> ctx, rows |-> <<>>, views |-> <<>>]
            ELSE Row(at[j - 1], j)
        Build(done) ==
            [raised |-> FALSE,
             table |-> [columns |-> names, rows |-> done.rows],
             ctx |-> done.ctx, views |-> done.views]
    IN  IF Len(mappings) = 0
        THEN [raised |-> FALSE, table |-> df, ctx |-> ctx, views |-> <<>>]
        ELSE Build(at[NRows(df)])

\* TransformStep.execute. The result is [raised, table, ctx, views]: the
\* step's return value, the context after it, and the recorded row views.
TransformStep(ctx, df, config) ==
    LET mappings == config.mappings
        names == [k \in 1..Len(mappings) |-> mappings[k].name]
        Collect(p, j, r) ==
            [rows |-> Append(p.rows,
                        [idx |-> df.rows[j].idx,
                         vals |-> [c \in Range(names) |->
                            r.values[CHOOSE k \in 1..Len(names) : names[k] = c]]]),
             views |-> Append(p.views, r.views),
             ctx |-> r.ctx]
        Row(p, j) == Collect(p, j, TransformRow(p.ctx, df.rows[j], mappings))
        at[j \in 0..NRows(df)] ==
            IF j = 0
            THEN [ctx |-> ctx, rows |-> <<>>, views |-> <<>>]
            ELSE Row(at[j - 1], j)
        Build(done) ==
            [raised |-> FALSE,
             table |-> [columns |-> names, rows |-> done.rows],
             ctx |-> done.ctx, views |-> done.views]
    IN  IF Len(mappings) = 0
        THEN [raised |-> FALSE, table |-> df, ctx |-> ctx, views |-> <<>>]
        ELSE Build(at[NRows(df)])

\* --------------------------------------------------------------- filter step
\* A FilterCondition is [column, operator, value, case_sensitive,
\* skip_if_column_missing]; a FilterConfig is [mode, conditions].
Upper(s) ==
    CASE s = "x" -> "X" [] s = "y" -> "Y"
      [] s = "None" -> "NONE" [] s = "nan" -> "NAN" [] OTHER -> s

Strip(s) == CASE s = " " -> "" [] OTHER -> s

Digit(d) == <<"0", "1", "2", "3", "4", "5", "6", "7", "8", "9">>[d + 1]

DecimalText(n) ==
    IF n < 0 THEN "-" \o Digit(-n)
    ELSE IF n < 10 THEN Digit(n)
    ELSE Digit((n \div 10) % 10) \o Digit(n % 10)

\* str(value) of a cell, as Series.astype(str) applies it.
PyStr(c) ==
    CASE c.kind = "none" -> "None"
      [] c.kind = "nan" -> "nan"
      [] c.kind = "num" -> DecimalText(c.n)
      [] OTHER -> c.s

\* The dtype of a column is object when it holds a string or None.
IsObjectColumn(df, column) ==
    \E j \in 1..NRows(df) : df.rows[j].vals[column].kind \in {"str", "none"}

\* FilterStep._evaluate_condition, lines 74-89: the column values and the
\* operand, upper-cased when the condition is case-insensitive and the column
\* textual.
ConditionValues(df, condition) ==
    LET raw == [j \in 1..NRows(df) |-> df.rows[j].vals[condition.column]]
    IN  IF ~condition.case_sensitive /\ IsObjectColumn(df, condition.column)
        THEN [j \in 1..NRows(df) |-> Str(Upper(PyStr(raw[j])))]
        ELSE raw

ConditionOperand(df, condition) ==
    IF ~condition.case_sensitive /\ IsObjectColumn(df, condition.column)
       /\ condition.value.kind = "str"
    THEN Str(Upper(condition.value.s))
    ELSE condition.value

\* Elementwise == of a cell and a scalar: a null cell equals nothing.
CellEquals(c, v) ==
    /\ ~IsNull(c)
    /\ ~IsNull(v)
    /\ c.kind = v.kind
    /\ c = v

\* float(value) raises for None and for text that is no number.
FloatRaises(v) == v.kind = "none" \/ (v.kind = "str" /\ ~IsNumericText(v.s))

\* FilterStep._apply_operator for equals, greater_than, is_null, is_not_null.
ApplyOperator(c, operator, v) ==
    CASE operator = "equals" -> CellEquals(c, v)
      [] operator = "greater_than" ->
            /\ ToNumeric(c).kind = "num"
            /\ ToNumeric(v).kind = "num"
            /\ ToNumeric(c).n > ToNumeric(v).n
      [] operator = "is_null" ->
            IsNull(c) \/ CellEquals(c, Str("")) \/ Strip(PyStr(c)) = ""
      [] operator = "is_not_null" ->
            ~IsNull(c) /\ ~CellEquals(c, Str("")) /\ Strip(PyStr(c)) # ""

\* The pieces of a configuration string: the marker texts of the model are
\* split at "$ref:" and at the dots, any other text is one piece.
RefParts(text) ==
    CASE text = "$ref:global.version" -> <<"$ref:", "global", "version">>
      [] text = "$ref:brand.version" -> <<"$ref:", "brand", "version">>
      [] OTHER -> <<text>>

\* The cell a resolved Python value is compared as (the text "1.0" as 1).
CellOf(obj) == IF obj.kind = "leaf" THEN Num(obj.v) ELSE None

\* BaseStep.resolve_ref: [raised, value, ctx].
ResolveRef(ctx, value) ==
    LET Resolved(r) == [raised |-> r.raised, value |-> CellOf(r.value), ctx |-> r.ctx]
    IN  IF value.kind = "str" /\ IsMarker(RefParts(value.s))
        THEN Resolved(ResolveReference(ctx, RefParts(value.s)))
        ELSE [raised |-> FALSE, value |-> value, ctx |-> ctx]

\* FilterStep._evaluate_condition: [skipped, raised, mask, ctx].
EvaluateCondition(ctx, df, condition) ==
    LET Masked(r, resolved) ==
            IF r.raised \/ (resolved.operator = "greater_than" /\ FloatRaises(r.value))
            THEN [skipped |-> FALSE, raised |-> TRUE, mask |-> <<>>, ctx |-> r.ctx]
            ELSE [skipped |-> FALSE, raised |-> FALSE,
                  mask |-> [j \in 1..NRows(df) |->
                               ApplyOperator(ConditionValues(df, resolved)[j],
                                             resolved.operator,
                                             ConditionOperand(df, resolved))],
                  ctx |-> r.ctx]
        Apply(r) == Masked(r, [condition EXCEPT !.value = r.value])
    IN  IF ~HasColumn(df, condition.column)
        THEN IF condition.skip_if_column_missing
             THEN [skipped |-> TRUE, raised |-> FALSE, mask |-> <<>>,
                   ctx |-> AddWarning(ctx, <<"Filter column not found, skipping condition: ",
                                             condition.column>>)]
             ELSE [skipped |-> FALSE, raised |-> FALSE,
                   mask |-> [j \in 1..NRows(df) |-> TRUE],
                   ctx |-> AddError(ctx, <<"Filter column not found: ", condition.column>>,
                                    ERROR)]
        ELSE Apply(ResolveRef(ctx, condition.value))

\* A variant of the selection with a slip: the mask is negated.
SelectRowsInverted(df, mask) ==
    LET keep[j \in 0..NRows(df)] ==
            IF j = 0 THEN <<>>
            ELSE IF ~mask[j] THEN Append(keep[j - 1], df.rows[j]) ELSE keep[j - 1]
    IN  [columns |-> df.columns, rows |-> keep[NRows(df)]]

\* df[mask]: the rows whose mask entry is true, in order, labels kept.
SelectRows(df, mask) ==
    LET keep[j \in 0..NRows(df)] ==
            IF j = 0 THEN <<>>
            ELSE IF mask[j] THEN Append(keep[j - 1], df.rows[j]) ELSE keep[j - 1]
    IN  [columns |-> df.columns, rows |-> keep[NRows(df)]]

\* A variant of the step with a slip: the masks are AND-ed in any_of mode too.
FilterStepConjunctive(ctx, df, config) ==
    LET conditions == config.conditions
        Merge(p, r) ==
            IF p.raised THEN p
            ELSE IF r.raised THEN [p EXCEPT !.raised = TRUE, !.ctx = r.ctx]
            ELSE IF r.skipped THEN [p EXCEPT !.ctx = r.ctx]
            ELSE [p EXCEPT !.ctx = r.ctx, !.masks = Append(@, r.mask)]
        Check(p, condition) == Merge(p, EvaluateCondition(p.ctx, df, condition))
        at[k \in 0..Len(conditions)] ==
            IF k = 0 THEN [ctx |-> ctx, masks |-> <<>>, raised |-> FALSE]
            ELSE Check(at[k - 1], conditions[k])
        Combined(masks) ==
            [j \in 1..NRows(df) |->
                \A m \in 1..Len(masks) : masks[m][j]]
        Apply(done) ==
            IF done.raised
            THEN [raised |-> TRUE, table |-> NoTable, ctx |-> done.ctx]
            ELSE IF Len(done.masks) = 0
            THEN [raised |-> FALSE, table |-> df, ctx |-> done.ctx]
            ELSE [raised |-> FALSE,
                  table |-> SelectRows(df, Combined(done.masks)), ctx |-> done.ctx]
    IN  IF Len(conditions) = 0
        THEN [raised |-> FALSE, table |-> df, ctx |-> ctx]
        ELSE Apply(at[Len(conditions)])

\* FilterStep.execute: [raised, table, ctx].
FilterStep(ctx, df, config) ==
    LET conditions == config.conditions
        Merge(p, r) ==
            IF p.raised THEN p
            ELSE IF r.raised THEN [p EXCEPT !.raised = TRUE, !.ctx = r.ctx]
            ELSE IF r.skipped THEN [p EXCEPT !.ctx = r.ctx]
            ELSE [p EXCEPT !.ctx = r.ctx, !.masks = Append(@, r.mask)]
        Check(p, condition) == Merge(p, EvaluateCondition(p.ctx, df, condition))
        at[k \in 0..Len(conditions)] ==
            IF k = 0 THEN [ctx |-> ctx, masks |-> <<>>, raised |-> FALSE]
            ELSE Check(at[k - 1], conditions[k])
        Combined(masks) ==
            [j \in 1..NRows(df) |->
                IF config.mode = "all_of"
                THEN \A m \in 1..Len(masks) : masks[m][j]
                ELSE \E m \in 1..Len(masks) : masks[m][j]]
        Apply(done) ==
            IF done.raised
            THEN [raised |-> TRUE, table |-> NoTable, ctx |-> done.ctx]
            ELSE IF Len(done.masks) = 0
            THEN [raised |-> FALSE, table |-> df, ctx |-> done.ctx]
            ELSE [raised |-> FALSE,
                  table |-> SelectRows(df, Combined(done.masks)), ctx |-> done.ctx]
    IN  IF Len(conditions) = 0
        THEN [raised |-> FALSE, table |-> df, ctx |-> ctx]
        ELSE Apply(at[Len(conditions)])

\* ------------------------------------------------------------ aggregate step
\* An AggregateConfig is [group_by, aggregations], aggregations a sequence of
\* [name, source, function, coerce_numeric] in declaration order.
TextRank(x) == CASE x = "" -> 0 [] x = " " -> 1 [] x = "7" -> 2 [] x = "X" -> 3
                 [] x = "Y" -> 4 [] x = "x" -> 5 [] x = "y" -> 6 [] OTHER -> 7

\* The sort order of group keys: numbers by value, text in code-point order.
KeyLess(a, b) ==
    \/ a.kind = "num" /\ b.kind = "num" /\ a.n < b.n
    \/ a.kind = "num" /\ b.kind = "str"
    \/ a.kind = "str" /\ b.kind = "str" /\ TextRank(a.s) < TextRank(b.s)

\* The distinct non-null keys, sorted (groupby drops null keys and sorts).
SortedKeys(keys) ==
    LET pick[n \in 0..Cardinality(keys)] ==
            IF n = 0 THEN <<>>
            ELSE LET rest == keys \ Range(pick[n - 1])
                 IN  Append(pick[n - 1],
                            CHOOSE x \in rest : \A y \in rest : ~KeyLess(y, x))
    IN  pick[Cardinality(keys)]

\* AggregateStep.execute, lines 46-48: df[source] = pd.to_numeric(df[source]).
CoerceColumn(df, column) ==
    [df EXCEPT !.rows = [j \in 1..NRows(df) |->
        [df.rows[j] EXCEPT !.vals[column] = ToNumeric(@)]]]

\* A variant of _first_non_null with a slip: the first value is returned
\* without the nulls being dropped.
FirstValue(series) ==
    IF Len(series) > 0 THEN series[1] ELSE NaN

\* AggregateStep._first_non_null.
FirstNonNull(series) ==
    LET non_null == SelectSeq(series, LAMBDA c : ~IsNull(c))
    IN  IF Len(non_null) > 0 THEN non_null[1] ELSE NaN

\* The "sum" reduction of a numeric series: nulls are skipped.
SumOf(series) ==
    LET acc[j \in 0..Len(series)] ==
            IF j = 0 THEN 0
            ELSE acc[j - 1] + (IF series[j].kind = "num" THEN series[j].n ELSE 0)
    IN  Num(acc[Len(series)])

\* The "count" reduction: the number of non-null values.
CountOf(series) == Num(Len(SelectSeq(series, LAMBDA c : ~IsNull(c))))

Reduce(function, series) ==
    CASE function = "sum" -> SumOf(series)
      [] function = "count" -> CountOf(series)
      [] function = "first_non_null" -> FirstNonNull(series)

\* Variants of the step with a slip: the group_by check made after the rules
\* were walked, and a rule with an absent source skipped without a warning.
AggregateStepLateCheck(ctx, df, config) ==
    LET group_by == config.group_by
        rules == config.aggregations
        at[k \in 0..Len(rules)] ==
            IF k = 0 THEN [ctx |-> ctx, df |-> df, spec |-> <<>>]
            ELSE LET p == at[k - 1]
                     rule == rules[k]
                 IN  IF ~HasColumn(p.df, rule.source)
                     THEN [p EXCEPT !.ctx = AddWarning(@,
                              <<"Aggregation source column not found: ", rule.source>>)]
                     ELSE [ctx |-> p.ctx,
                           df |-> IF rule.coerce_numeric
                                  THEN CoerceColumn(p.df, rule.source) ELSE p.df,
                           spec |-> Append(p.spec, rule)]
        built == at[Len(rules)]
        src == built.df
        keys == SortedKeys({src.rows[j].vals[group_by] : j \in 1..NRows(src)}
                           \ {None, NaN})
        series(key, column) ==
            LET members == SelectSeq(src.rows, LAMBDA r : r.vals[group_by] = key)
            IN  [j \in 1..Len(members) |-> members[j].vals[column]]
        names == <<group_by>> \o [k \in 1..Len(built.spec) |-> built.spec[k].name]
        value(key, c) ==
            IF c = group_by THEN key
            ELSE LET rule == built.spec[CHOOSE k \in 1..Len(built.spec) :
                                            built.spec[k].name = c]
                 IN  Reduce(rule.function, series(key, rule.source))
    IN  IF ~HasColumn(df, group_by)
        THEN [raised |-> FALSE, table |-> df,
              ctx |-> AddError(at[Len(rules)].ctx,
                               <<"Group by column not found: ", group_by>>, ERROR)]
        ELSE IF Len(built.spec) = 0
        THEN [raised |-> FALSE, table |-> src,
              ctx |-> AddError(built.ctx, <<"No valid aggregations to perform">>, ERROR)]
        ELSE [raised |-> FALSE,
              table |-> [columns |-> names,
                         rows |-> [j \in 1..Len(keys) |->
                                     [idx |-> j - 1,
                                      vals |-> [c \in Range(names) |-> value(keys[j], c)]]]],
              ctx |-> built.ctx]

AggregateStepSilent(ctx, df, config) ==
    LET group_by == config.group_by
        rules == config.aggregations
        at[k \in 0..Len(rules)] ==
            IF k = 0 THEN [ctx |-> ctx, df |-> df, spec |-> <<>>]
            ELSE LET p == at[k - 1]
                     rule == rules[k]
                 IN  IF ~HasColumn(p.df, rule.source)
                     THEN p
                     ELSE [ctx |-> p.ctx,
                           df |-> IF rule.coerce_numeric
                                  THEN CoerceColumn(p.df, rule.source) ELSE p.df,
                           spec |-> Append(p.spec, rule)]
        built == at[Len(rules)]
        src == built.df
        keys == SortedKeys({src.rows[j].vals[group_by] : j \in 1..NRows(src)}
                           \ {None, NaN})
        series(key, column) ==
            LET members == SelectSeq(src.rows, LAMBDA r : r.vals[group_by] = key)
            IN  [j \in 1..Len(members) |-> members[j].vals[column]]
        names == <<group_by>> \o [k \in 1..Len(built.spec) |-> built.spec[k].name]
        value(key, c) ==
            IF c = group_by THEN key
            ELSE LET rule == built.spec[CHOOSE k \in 1..Len(built.spec) :
                                            built.spec[k].name = c]
                 IN  Reduce(rule.function, series(key, rule.source))
    IN  IF ~HasColumn(df, group_by)
        THEN [raised |-> FALSE, table |-> df,
              ctx |-> AddError(ctx, <<"Group by column not found: ", group_by>>, ERROR)]
        ELSE IF Len(built.spec) = 0
        THEN [raised |-> FALSE, table |-> src,
              ctx |-> AddError(built.ctx, <<"No valid aggregations to perform">>, ERROR)]
        ELSE [raised |-> FALSE,
              table |-> [columns |-> names,
                         rows |-> [j \in 1..Len(keys) |->
                                     [idx |-> j - 1,
                                      vals |-> [c \in Range(names) |-> value(keys[j], c)]]]],
              ctx |-> built.ctx]

\* AggregateStep.execute: [raised, table, ctx].
AggregateStep(ctx, df, config) ==
    LET group_by == config.group_by
        rules == config.aggregations
        at[k \in 0..Len(rules)] ==
            IF k = 0 THEN [ctx |-> ctx, df |-> df, spec |-> <<>>]
            ELSE LET p == at[k - 1]
                     rule == rules[k]
                 IN  IF ~HasColumn(p.df, rule.source)
                     THEN [p EXCEPT !.ctx = AddWarning(@,
                              <<"Aggregation source column not found: ", rule.source>>)]
                     ELSE [ctx |-> p.ctx,
                           df |-> IF rule.coerce_numeric
                                  THEN CoerceColumn(p.df, rule.source) ELSE p.df,
                           spec |-> Append(p.spec, rule)]
        built == at[Len(rules)]
        src == built.df
        keys == SortedKeys({src.rows[j].vals[group_by] : j \in 1..NRows(src)}
                           \ {None, NaN})
        series(key, column) ==
            LET members == SelectSeq(src.rows, LAMBDA r : r.vals[group_by] = key)
            IN  [j \in 1..Len(members) |-> members[j].vals[column]]
        names == <<group_by>> \o [k \in 1..Len(built.spec) |-> built.spec[k].name]
        value(key, c) ==
            IF c = group_by THEN key
            ELSE LET rule == built.spec[CHOOSE k \in 1..Len(built.spec) :
                                            built.spec[k].name = c]
                 IN  Reduce(rule.function, series(key, rule.source))
    IN  IF ~HasColumn(df, group_by)
        THEN [raised |-> FALSE, table |-> df,
              ctx |-> AddError(ctx, <<"Group by column not found: ", group_by>>, ERROR)]
        ELSE IF Len(built.spec) = 0
        THEN [raised |-> FALSE, table |-> src,
              ctx |-> AddError(built.ctx, <<"No valid aggregations to perform">>, ERROR)]
        ELSE [raised |-> FALSE,
              table |-> [columns |-> names,
                         rows |-> [j \in 1..Len(keys) |->
                                     [idx |-> j - 1,
                                      vals |-> [c \in Range(names) |-> value(keys[j], c)]]]],
              ctx |-> built.ctx]

\* ------------------------------------------------------------- validate step
IsEmpty(c) == IsNull(c) \/ (c.kind = "str" /\ Strip(c.s) = "")

\* ValidateStep.execute, the body of the row loop: [ctx, is_valid].
ValidateRow(ctx, df, row, required_fields) ==
    LET at[k \in 0..Len(required_fields)] ==
            IF k = 0 THEN [ctx |-> ctx, is_valid |-> TRUE]
            ELSE LET p == at[k - 1]
                     field == required_fields[k]
                 IN  IF ~HasColumn(df, field)
                     THEN [ctx |-> AddErrorAt(p.ctx, <<"Required field missing: ", field>>,
                                              field, row.idx, ERROR),
                           is_valid |-> FALSE]
                     ELSE IF IsEmpty(row.vals[field])
                     THEN [p EXCEPT !.ctx = AddWarningAt(@,
                              <<"Required field is empty: ", field>>, field, row.idx)]
                     ELSE p
    IN  at[Len(required_fields)]

\* ValidateStep._validate_type. The texts of the model have at most one
\* character, so "T" in value or "-" in value is a membership test.
ValidateType(c, expected_type) ==
    IF IsEmpty(c) THEN TRUE
    ELSE CASE expected_type = "numeric" -> ~FloatRaises(c)
           [] expected_type = "string" -> c.kind = "str"
           [] expected_type = "date" -> c.kind = "str" => c.s \in {"T", "-"}
           [] OTHER -> TRUE

\* ValidateStep.execute, lines 53-62: the type loop of one row. validate_types
\* is the sequence of [field, expected_type] in the dict's order.
CheckTypes(r, df, row, validate_types) ==
    LET at[k \in 0..Len(validate_types)] ==
            IF k = 0 THEN r.ctx
            ELSE IF /\ HasColumn(df, validate_types[k].field)
                    /\ ~ValidateType(row.vals[validate_types[k].field],
                                     validate_types[k].expected_type)
                 THEN AddWarningAt(at[k - 1],
                          <<"Field has invalid type: ", validate_types[k].field,
                            validate_types[k].expected_type>>,
                          validate_types[k].field, row.idx)
                 ELSE at[k - 1]
    IN  [ctx |-> at[Len(validate_types)], is_valid |-> r.is_valid]

\* config.get(key, default).
ConfigGet(config, key, default) ==
    IF key \in DOMAIN config THEN config[key] ELSE default

\* df.loc[labels].copy(), line 70: for each label in turn, every row of df
\* that carries it.
Loc(df, labels) ==
    LET at[k \in 0..Len(labels)] ==
            IF k = 0 THEN <<>>
            ELSE at[k - 1] \o SelectSeq(df.rows, LAMBDA row : row.idx = labels[k])
    IN  [columns |-> df.columns, rows |-> at[Len(labels)]]

\* A variant of the step with a slip: an invalid row is dropped without being
\* quarantined.
ValidateStepUnrecorded(ctx, df, config) ==
    LET required_fields == ConfigGet(config, "required_fields", <<>>)
        quarantine_invalid == ConfigGet(config, "quarantine_invalid", TRUE)
        validate_types == ConfigGet(config, "validate_types", <<>>)
        Keep(p, row, r) ==
            IF r.is_valid \/ ~quarantine_invalid
            THEN [ctx |-> r.ctx, rows_to_keep |-> Append(p.rows_to_keep, row.idx)]
            ELSE [ctx |-> r.ctx,
                  rows_to_keep |-> p.rows_to_keep]
        Row(p, row) ==
            Keep(p, row, CheckTypes(ValidateRow(p.ctx, df, row, required_fields),
                                    df, row, validate_types))
        at[j \in 0..NRows(df)] ==
            IF j = 0 THEN [ctx |-> ctx, rows_to_keep |-> <<>>]
            ELSE Row(at[j - 1], df.rows[j])
        Build(done) ==
            [raised |-> FALSE,
             table |-> Loc(df, done.rows_to_keep),
             ctx |-> done.ctx]
    IN  Build(at[NRows(df)])

\* ValidateStep.execute: [raised, table, ctx]. The config is a dict with the
\* optional keys required_fields, quarantine_invalid and validate_types.
ValidateStep(ctx, df, config) ==
    LET required_fields == ConfigGet(config, "required_fields", <<>>)
        quarantine_invalid == ConfigGet(config, "quarantine_invalid", TRUE)
        validate_types == ConfigGet(config, "validate_types", <<>>)
        Keep(p, row, r) ==
            IF r.is_valid \/ ~quarantine_invalid
            THEN [ctx |-> r.ctx, rows_to_keep |-> Append(p.rows_to_keep, row.idx)]
            ELSE [ctx |-> QuarantineRow(r.ctx, row.idx, "Failed validation"),
                  rows_to_keep |-> p.rows_to_keep]
        Row(p, row) ==
            Keep(p, row, CheckTypes(ValidateRow(p.ctx, df, row, required_fields),
                                    df, row, validate_types))
        at[j \in 0..NRows(df)] ==
            IF j = 0 THEN [ctx |-> ctx, rows_to_keep |-> <<>>]
            ELSE Row(at[j - 1], df.rows[j])
        Build(done) ==
            [raised |-> FALSE,
             table |-> Loc(df, done.rows_to_keep),
             ctx |-> done.ctx]
    IN  Build(at[NRows(df)])

\* ------------------------------------------------------------ pipeline engine
\* PipelineEngine._register_default_steps.
StepExecutors == {"filter", "aggregate", "transform", "validate"}

\* executor_class(context).execute(current_df, step_config.config).
Execute(step_name, ctx, df, config) ==
    CASE step_name = "filter" -> FilterStep(ctx, df, config)
      [] step_name = "aggregate" -> AggregateStep(ctx, df, config)
      [] step_name = "transform" -> TransformStep(ctx, df, config)
      [] step_name = "validate" -> ValidateStep(ctx, df, config)

\* A variant of _validate_schema with a slip: a missing required column is
\* handled like a missing optional one.
ValidateSchemaLenient(ctx, df, schema) ==
    LET all == schema.required_columns \o schema.optional_columns
        warn[k \in 0..Len(all)] ==
            IF k = 0 THEN ctx
            ELSE IF ~HasColumn(df, all[k])
                 THEN AddWarning(warn[k - 1], <<"Optional column not found: ", all[k]>>)
                 ELSE warn[k - 1]
    IN  [errors |-> <<>>, ctx |-> warn[Len(all)]]

\* PipelineEngine._validate_schema: [errors, ctx].
ValidateSchema(ctx, df, schema) ==
    LET req[k \in 0..Len(schema.required_columns)] ==
            IF k = 0 THEN [ctx |-> ctx, errors |-> <<>>]
            ELSE LET p == req[k - 1]
                     col == schema.required_columns[k]
                 IN  IF ~HasColumn(df, col)
                     THEN [ctx |-> AddError(p.ctx, <<"Missing required column: ", col>>,
                                            CRITICAL),
                           errors |-> Append(p.errors, col)]
                     ELSE p
        required == req[Len(schema.required_columns)]
        opt[k \in 0..Len(schema.optional_columns)] ==
            IF k = 0 THEN required.ctx
            ELSE IF ~HasColumn(df, schema.optional_columns[k])
                 THEN AddWarning(opt[k - 1],
                          <<"Optional column not found: ", schema.optional_columns[k]>>)
                 ELSE opt[k - 1]
    IN  [errors |-> required.errors, ctx |-> opt[Len(schema.optional_columns)]]

\* A variant of _order_output_columns with a slip: the missing columns are
\* reported but not added.
OrderOutputColumnsPresentOnly(ctx, df, output_columns) ==
    LET missing == SelectSeq(output_columns, LAMBDA col : ~HasColumn(df, col))
        present == SelectSeq(output_columns, LAMBDA col : HasColumn(df, col))
    IN  [table |-> [columns |-> present,
                    rows |-> [j \in 1..NRows(df) |->
                                [idx |-> df.rows[j].idx,
                                 vals |-> [c \in Range(present) |-> df.rows[j].vals[c]]]]],
         ctx |-> IF Len(missing) > 0
                 THEN AddError(ctx, <<"Missing output columns: ">> \o missing, ERROR)
                 ELSE ctx]

\* PipelineEngine._order_output_columns: [table, ctx].
OrderOutputColumns(ctx, df, output_columns) ==
    LET missing == SelectSeq(output_columns, LAMBDA col : ~HasColumn(df, col))
        filled == [j \in 1..NRows(df) |->
                     [idx |-> df.rows[j].idx,
                      vals |-> [c \in Range(output_columns) |->
                                   IF HasColumn(df, c) THEN df.rows[j].vals[c] ELSE None]]]
    IN  [table |-> [columns |-> output_columns, rows |-> filled],
         ctx |-> IF Len(missing) > 0
                 THEN AddError(ctx, <<"Missing output columns: ">> \o missing, ERROR)
                 ELSE ctx]

\* _order_output_columns, lines 242-243: df[col] = None for every missing
\* column, on the table it was handed.
AddMissingColumns(df, output_columns) ==
    LET missing == SelectSeq(output_columns, LAMBDA col : ~HasColumn(df, col))
    IN  [columns |-> df.columns \o missing,
         rows |-> [j \in 1..NRows(df) |->
                     [idx |-> df.rows[j].idx,
                      vals |-> [c \in Range(df.columns) \cup Range(missing) |->
                                   IF HasColumn(df, c) THEN df.rows[j].vals[c] ELSE None]]]]

\* The table an executor was handed, as execute leaves it: the aggregate step
\* coerces in place (lines 46-48) the source column of every rule that asks
\* for it, once the group_by column was found; no other step assigns to it.
InputAfter(step_name, df, config) ==
    IF step_name = "aggregate" /\ HasColumn(df, config.group_by)
    THEN LET rules == config.aggregations
             at[k \in 0..Len(rules)] ==
                 IF k = 0 THEN df
                 ELSE IF HasColumn(df, rules[k].source) /\ rules[k].coerce_numeric
                 THEN CoerceColumn(at[k - 1], rules[k].source)
                 ELSE at[k - 1]
         IN  at[Len(rules)]
    ELSE df

\* Whether execute returns the very object it was handed: the filter without
\* conditions or masks (lines 27-28, 36-37), the aggregate step without its
\* group_by column or a valid rule (lines 28-33, 58-63), the transform without
\* mappings (lines 27-28); every other return is a new object.
ReturnsInput(step_name, ctx, df, config) ==
    CASE step_name = "filter" ->
            \A k \in 1..Len(config.conditions) :
                EvaluateCondition(ctx, df, config.conditions[k]).skipped
      [] step_name = "aggregate" ->
            \/ ~HasColumn(df, config.group_by)
            \/ \A k \in 1..Len(config.aggregations) :
                   ~HasColumn(df, config.aggregations[k].source)
      [] step_name = "transform" -> Len(config.mappings) = 0
      [] OTHER -> FALSE

\* A variant of line 117 with a slip: current_df = df, the caller's object.
CopyObjectShared(object) == object

\* df.copy(), line 117, as an object: a new one, whatever was copied.
CopyObject(object) == "copy"

\* A variant of line 185 with a slip: the step's result is not carried on.
KeepTable(current, result_df) == current

\* process, line 185: current_df = result_df.
AdvanceTable(current, result_df) == result_df

\* StepResult(...), lines 164-170.
StepResult(step_name, input_rows, output_rows) ==
    [step_name |-> step_name, input_rows |-> input_rows,
     output_rows |-> output_rows, filtered_rows |-> input_rows - output_rows,
     errors |-> <<>>]

\* StepResult.to_dict, lines 69-70: error_count and warning_count are counted
\* over the step result's own errors list.
ErrorCount(step_result) ==
    Len(SelectSeq(step_result.errors, LAMBDA e : e.severity = ERROR))

WarningCount(step_result) ==
    Len(SelectSeq(step_result.errors, LAMBDA e : e.severity = WARNING))

NoResult == [success |-> FALSE, input_rows |-> -1, output_rows |-> -1,
             step_results |-> <<>>, errors |-> <<>>, warnings |-> <<>>,
             quarantined_rows |-> {}]

VARIABLES
    pc,            \* where process is: "Pending", "Steps" (loop head), "Done"
    df,            \* the caller's input table
    brand_config,  \* [input_schema, pipeline, output_columns]
    context,       \* the run's ProcessingContext
    current_df,    \* the table the next step receives
    i,             \* 1-based position of the next pipeline step
    output,        \* the returned table, NoTable for none
    result,        \* the returned ProcessingResult
    outcome,       \* history: which return statement ended the run
    calls,         \* history: the execute calls made, in order
    runs,          \* history: the earlier runs of the engine, in call order
    current_ref,   \* which object current_df is: "none" before line 117,
                   \* "input" the caller's table, "copy" the object made at
                   \* line 117, "step" an object made by a step
    given          \* history: the caller's table as it was passed to process

vars == <<pc, df, brand_config, context, current_df, i, output, result,
          outcome, calls, runs, current_ref, given>>

\* -------------------------------------------------------------------- inputs
\* Input tables: rows drawn from three row templates over the columns
\* k (order key), s (status text), a (amount), with a RangeIndex; the reduced
\* layout lacks column s.
RowTemplates ==
    { [k |-> Num(1), s |-> Str("x"), a |-> Num(2)],
      [k |-> Num(1), s |-> Str(""), a |-> NaN],
      [k |-> Num(2), s |-> Str("7"), a |-> Str("7")] }

Layouts == { <<"k", "s", "a">>, <<"k", "a">> }

MakeTable(layout, q) ==
    [columns |-> layout,
     rows |-> [j \in 1..Len(q) |->
                 [idx |-> j - 1, vals |-> [c \in Range(layout) |-> q[j][c]]]]]

InputTables ==
    {MakeTable(layout, q) : layout \in Layouts, q \in SeqsUpTo(RowTemplates, MaxRows)}

Condition(column, operator, value, case_sensitive, skip) ==
    [column |-> column, operator |-> operator, value |-> value,
     case_sensitive |-> case_sensitive, skip_if_column_missing |-> skip]

Rule(name, source, function, coerce) ==
    [name |-> name, source |-> source, function |-> function,
     coerce_numeric |-> coerce]

Field(name, mapping) == [name |-> name, mapping |-> mapping]

FilterStatus ==
    [step |-> "filter",
     config |-> [mode |-> "all_of",
                 conditions |-> <<Condition("s", "equals", Str("x"), FALSE, FALSE)>>]]

FilterBadOperand ==
    [step |-> "filter",
     config |-> [mode |-> "any_of",
                 conditions |-> <<Condition("z", "is_null", None, FALSE, TRUE),
                                  Condition("a", "greater_than", Str("x"), TRUE, FALSE)>>]]

AggregateOrders ==
    [step |-> "aggregate",
     config |-> [group_by |-> "k",
                 aggregations |-> <<Rule("a", "a", "sum", TRUE),
                                    Rule("s", "s", "first_non_null", FALSE)>>]]

TransformFields ==
    [step |-> "transform",
     config |-> [mappings |-> <<Field("a", StaticMapping(Num(5))),
                                Field("b", DirectMapping("a")),
                                Field("t", FormulaMapping(<<"s">>, FALSE)),
                                Field("c", FormulaMapping(<<"t", "b">>, TRUE))>>]]

ValidateRequired ==
    [step |-> "validate",
     config |-> [required_fields |-> <<"s", "k">>, quarantine_invalid |-> TRUE]]

ExportStep == [step |-> "export", config |-> [target |-> "csv"]]

StepConfigs ==
    {FilterStatus, FilterBadOperand, AggregateOrders, TransformFields,
     ValidateRequired, ExportStep}

\* The brands: an input schema with the declared output columns.
Brand(required, optional, out) ==
    [input_schema |-> [required_columns |-> required, optional_columns |-> optional],
     output_columns |-> out]

Brands ==
    { Brand(<<"k">>, <<"s", "z">>, <<"b", "a", "c">>),
      Brand(<<"k", "s">>, <<>>, <<"k", "a">>),
      Brand(<<"s", "z">>, <<"z">>, <<"k", "a">>) }

BrandConfigs ==
    {[input_schema |-> b.input_schema, pipeline |-> p,
      output_columns |-> b.output_columns] :
        b \in Brands, p \in SeqsUpTo(StepConfigs, MaxSteps)}

\* Filter configurations: the identity filter, a filter whose only condition
\* is skipped, two real conditions under either mode, and a condition on the
\* absent column z (not skipped) next to a real one under either mode.
FilterNone == [step |-> "filter", config |-> [mode |-> "all_of", conditions |-> <<>>]]

FilterSkipped ==
    [step |-> "filter",
     config |-> [mode |-> "any_of",
                 conditions |-> <<Condition("z", "is_null", None, FALSE, TRUE)>>]]

FilterConditions(mode, first) ==
    [step |-> "filter",
     config |-> [mode |-> mode,
                 conditions |-> <<first,
                                  Condition("a", "greater_than", Num(1), FALSE, FALSE)>>]]

FilterConfigs ==
    {FilterNone, FilterSkipped, FilterStatus}
    \cup {FilterConditions(mode, first) :
             mode \in {"all_of", "any_of"},
             first \in {Condition("s", "equals", Str("x"), FALSE, FALSE),
                        Condition("z", "equals", Str("x"), FALSE, FALSE)}}

\* A brand whose pipeline holds filter steps only.
FilterBrandConfigs ==
    {[input_schema |-> [required_columns |-> <<"k">>, optional_columns |-> <<>>],
      pipeline |-> p, output_columns |-> <<"k", "a">>] :
        p \in SeqsUpTo(FilterConfigs, MaxSteps)}


\* Aggregate configurations and tables: the tables add a row whose order key
\* is null; the configurations group by the key, by the absent column z and
\* by the status text, with rules on present and on absent source columns.
AggregateByMissing ==
    [step |-> "aggregate",
     config |-> [group_by |-> "z",
                 aggregations |-> <<Rule("q", "q", "count", FALSE),
                                    Rule("a", "a", "sum", TRUE)>>]]

AggregateSparse ==
    [step |-> "aggregate",
     config |-> [group_by |-> "k",
                 aggregations |-> <<Rule("q", "q", "count", FALSE),
                                    Rule("s", "s", "first_non_null", FALSE)>>]]

AggregateByStatus ==
    [step |-> "aggregate",
     config |-> [group_by |-> "s",
                 aggregations |-> <<Rule("n", "a", "count", FALSE)>>]]

AggregateConfigs == {AggregateOrders, AggregateByMissing, AggregateSparse, AggregateByStatus}

AggregateTables ==
    {MakeTable(layout, q) :
        layout \in Layouts,
        q \in SeqsUpTo(RowTemplates \cup {[k |-> NaN, s |-> Str("x"), a |-> Num(2)]},
                       MaxRows)}

AggregateBrandConfigs ==
    {[input_schema |-> [required_columns |-> <<"k">>, optional_columns |-> <<>>],
      pipeline |-> p, output_columns |-> <<"k", "a">>] :
        p \in SeqsUpTo(AggregateConfigs, MaxSteps)}

\* Validate configurations: without quarantine, with type constraints, and
\* with the defaults of every key but required_fields.
ValidateLenient ==
    [step |-> "validate",
     config |-> [required_fields |-> <<"s">>, quarantine_invalid |-> FALSE,
                 validate_types |-> <<[field |-> "a", expected_type |-> "numeric"]>>]]

ValidateTyped ==
    [step |-> "validate",
     config |-> [required_fields |-> <<"k", "s">>, quarantine_invalid |-> TRUE,
                 validate_types |-> <<[field |-> "a", expected_type |-> "numeric"],
                                      [field |-> "s", expected_type |-> "date"],
                                      [field |-> "k", expected_type |-> "string"]>>]]

ValidateDefaults == [step |-> "validate", config |-> [required_fields |-> <<"s">>]]

ValidateConfigs == {ValidateRequired, ValidateLenient, ValidateTyped, ValidateDefaults}

ValidateBrandConfigs ==
    {[input_schema |-> [required_columns |-> <<"k">>, optional_columns |-> <<>>],
      pipeline |-> p, output_columns |-> <<"k", "a">>] :
        p \in SeqsUpTo(ValidateConfigs, MaxSteps)}

\* ------------------------------------------------------------------- actions
Init ==
    /\ pc = "Pending"
    /\ df \in InputTables
    /\ brand_config \in BrandConfigs
    /\ context = NewContext
    /\ current_df = NoTable
    /\ i = 0
    /\ output = NoTable
    /\ result = NoResult
    /\ outcome = "running"
    /\ calls = <<>>
    /\ runs = <<>>
    /\ current_ref = "none"
    /\ given = df

\* process, lines 95-118: a fresh context, schema validation, and either the
\* schema abort or the copy of the input that the first step receives.
BeginProcess ==
    /\ pc = "Pending"
    /\ LET v == ValidateSchema(CreateContext(context), df, brand_config.input_schema)
       IN  IF Len(v.errors) > 0
           THEN /\ context' = v.ctx
                /\ output' = NoTable
                /\ result' = GetResult(v.ctx, NRows(df), 0, FALSE)
                /\ outcome' = "schema_abort"
                /\ pc' = "Done"
                /\ UNCHANGED <<current_df, i, current_ref>>
           ELSE /\ context' = v.ctx
                /\ current_df' = CopyTable(df)
                /\ current_ref' = CopyObject("input")
                /\ i' = 1
                /\ pc' = "Steps"
                /\ UNCHANGED <<output, result, outcome>>
    /\ UNCHANGED <<df, brand_config, calls, runs, given>>

\* process, lines 120-185: one iteration of the step loop.
ExecuteStep ==
    /\ pc = "Steps"
    /\ i <= Len(brand_config.pipeline)
    /\ LET step_config == brand_config.pipeline[i]
           step_name == step_config.step
           ctx == [context EXCEPT !.current_step = step_name]
           \* lines 127-140 and 149-159: the CRITICAL entry and the abort.
           Abort(failed) ==
               /\ context' = failed
               /\ output' = NoTable
               /\ result' = GetResult(failed, NRows(df), 0, FALSE)
               /\ outcome' = "step_abort"
               /\ pc' = "Done"
               /\ UNCHANGED <<current_df, i>>
           \* lines 173-183: the step returned no rows.
           Empty(warned) ==
               /\ context' = warned
               /\ output' = NoTable
               /\ result' = GetResult(warned, NRows(df), 0, TRUE)
               /\ outcome' = "zero_rows"
               /\ pc' = "Done"
               /\ UNCHANGED <<current_df, i>>
           \* lines 164-185: the step result, the zero-row exit, the hand-over.
           Recorded(recorded, result_df) ==
               IF NRows(result_df) = 0
               THEN Empty(AddWarning(recorded,
                              <<"Step produced no output rows: ", step_name>>))
               ELSE /\ context' = recorded
                    /\ current_df' = AdvanceTable(current_df, result_df)
                    /\ i' = i + 1
                    /\ UNCHANGED <<pc, output, result, outcome>>
           \* lines 146-162: what follows the executor's call.
           After(r) ==
               /\ calls' = Append(calls,
                      [position |-> i, step |-> step_name, input |-> current_df,
                       raised |-> r.raised, returned |-> r.table,
                       entries |-> SubSeq(r.ctx.log, Len(ctx.log) + 1, Len(r.ctx.log)),
                       views |-> IF step_name = "transform" THEN r.views ELSE <<>>])
               /\ IF r.raised
                  THEN Abort(AddError(r.ctx, <<"Step failed: ", step_name>>, CRITICAL))
                  ELSE Recorded(AddStepResult(r.ctx,
                                   StepResult(step_name, NRows(current_df), NRows(r.table))),
                                r.table)
       IN  IF step_name \notin StepExecutors
           THEN /\ Abort(AddError(ctx, <<"Unknown step type: ", step_name>>, CRITICAL))
                /\ UNCHANGED calls
           ELSE After(Execute(step_name, ctx, current_df, step_config.config))
    \* what the executor did to the object it was handed, and which object
    \* line 185 leaves in current_df.
    /\ LET step_config == brand_config.pipeline[i]
           step_name == step_config.step
           ctx == [context EXCEPT !.current_step = step_name]
       IN  /\ df' = IF step_name \in StepExecutors /\ current_ref = "input"
                    THEN InputAfter(step_name, current_df, step_config.config)
                    ELSE df
           /\ current_ref' =
                  IF /\ i' = i + 1
                     /\ ~ReturnsInput(step_name, ctx, current_df, step_config.config)
                  THEN "step" ELSE current_ref
    /\ UNCHANGED <<brand_config, runs, given>>

\* process, lines 187-196: column ordering and the normal return.
Complete ==
    /\ pc = "Steps"
    /\ i > Len(brand_config.pipeline)
    /\ LET o == OrderOutputColumns(context, current_df, brand_config.output_columns)
       IN  /\ context' = o.ctx
           /\ output' = o.table
           /\ result' = GetResult(o.ctx, NRows(df), NRows(o.table), TRUE)
    /\ df' = IF current_ref = "input"
             THEN AddMissingColumns(current_df, brand_config.output_columns) ELSE df
    /\ outcome' = "complete"
    /\ pc' = "Done"
    /\ UNCHANGED <<brand_config, current_df, i, calls, runs, current_ref, given>>

Next == BeginProcess \/ ExecuteStep \/ Complete

Spec == Init /\ [][Next]_vars

\* Runs of the engine over pipelines of filter steps.
InitFilter ==
    /\ pc = "Pending"
    /\ df \in InputTables
    /\ brand_config \in FilterBrandConfigs
    /\ context = NewContext
    /\ current_df = NoTable
    /\ i = 0
    /\ output = NoTable
    /\ result = NoResult
    /\ outcome = "running"
    /\ calls = <<>>
    /\ runs = <<>>
    /\ current_ref = "none"
    /\ given = df

SpecFilter == InitFilter /\ [][Next]_vars

\* Runs of the engine over pipelines of aggregate steps.
InitAggregate ==
    /\ pc = "Pending"
    /\ df \in AggregateTables
    /\ brand_config \in AggregateBrandConfigs
    /\ context = NewContext
    /\ current_df = NoTable
    /\ i = 0
    /\ output = NoTable
    /\ result = NoResult
    /\ outcome = "running"
    /\ calls = <<>>
    /\ runs = <<>>
    /\ current_ref = "none"
    /\ given = df

SpecAggregate == InitAggregate /\ [][Next]_vars

\* Runs of the engine over pipelines of validate steps.
InitValidate ==
    /\ pc = "Pending"
    /\ df \in InputTables
    /\ brand_config \in ValidateBrandConfigs
    /\ context = NewContext
    /\ current_df = NoTable
    /\ i = 0
    /\ output = NoTable
    /\ result = NoResult
    /\ outcome = "running"
    /\ calls = <<>>
    /\ runs = <<>>
    /\ current_ref = "none"
    /\ given = df

SpecValidate == InitValidate /\ [][Next]_vars

\* --------------------------------------------------------------- ledger runs
\* Calls on one ProcessingContext as the steps make them, in any order: add_error
\* with each severity and quarantine_row, on rows 0 and 1. Each call is kept
\* with the context before and after it.
Severities == {INFO, WARNING, ERROR, CRITICAL}

LedgerRows == {0, 1}

InitLedger ==
    /\ pc = "Recording"
    /\ df = NoTable
    /\ brand_config = [pipeline |-> <<>>]
    /\ context = NewContext
    /\ current_df = NoTable
    /\ i = 0
    /\ output = NoTable
    /\ result = NoResult
    /\ outcome = "running"
    /\ calls = <<>>
    /\ runs = <<>>
    /\ current_ref = "none"
    /\ given = df

\* context.add_error(message, row_index=row_index, severity=severity).
RecordError ==
    /\ pc = "Recording"
    /\ Len(calls) < MaxEntries
    /\ \E severity \in Severities, row_index \in LedgerRows :
          LET Record(after) ==
                  /\ context' = after
                  /\ calls' = Append(calls,
                         [op |-> "add_error", row_index |-> row_index,
                          severity |-> severity, before |-> context, after |-> after])
          IN  Record(AddErrorAt(context, <<"Recorded">>, NoColumn, row_index, severity))
    /\ UNCHANGED <<pc, df, brand_config, current_df, i, output, result, outcome, runs,
                   current_ref, given>>

\* context.quarantine_row(row_index, reason).
QuarantineOne ==
    /\ pc = "Recording"
    /\ Len(calls) < MaxEntries
    /\ \E row_index \in LedgerRows :
          LET Record(after) ==
                  /\ context' = after
                  /\ calls' = Append(calls,
                         [op |-> "quarantine_row", row_index |-> row_index,
                          severity |-> WARNING, before |-> context, after |-> after])
          IN  Record(QuarantineRow(context, row_index, "Failed validation"))
    /\ UNCHANGED <<pc, df, brand_config, current_df, i, output, result, outcome, runs,
                   current_ref, given>>

NextLedger == RecordError \/ QuarantineOne

SpecLedger == InitLedger /\ [][NextLedger]_vars

\* ------------------------------------------------------------ in-place runs
\* Pipelines of the steps that hand their input back or assign to it: the
\* identity filter, a filter whose only condition is skipped, the aggregation
\* that coerces column a, a transform without mappings; the output columns
\* name a column z that no table has.
TransformNothing == [step |-> "transform", config |-> [mappings |-> <<>>]]

InPlaceBrandConfigs ==
    {[input_schema |-> [required_columns |-> <<"k">>, optional_columns |-> <<>>],
      pipeline |-> p, output_columns |-> <<"k", "a", "z">>] :
        p \in SeqsUpTo({FilterNone, FilterSkipped, AggregateOrders, TransformNothing},
                       MaxSteps)}

InitInPlace ==
    /\ pc = "Pending"
    /\ df \in InputTables
    /\ brand_config \in InPlaceBrandConfigs
    /\ context = NewContext
    /\ current_df = NoTable
    /\ i = 0
    /\ output = NoTable
    /\ result = NoResult
    /\ outcome = "running"
    /\ calls = <<>>
    /\ runs = <<>>
    /\ current_ref = "none"
    /\ given = df

SpecInPlace == InitInPlace /\ [][Next]_vars

\* ---------------------------------------------------------- relabelled runs
\* Tables whose index is not a RangeIndex: process accepts any DataFrame, and
\* a frame assembled by pd.concat without ignore_index, or cut out of another
\* frame, carries repeated or gapped labels.
IndexLabels == {0, 1}

LabelledTables ==
    {[columns |-> <<"k", "s", "a">>,
      rows |-> [j \in 1..Len(q) |-> [idx |-> q[j][1], vals |-> q[j][2]]]] :
        q \in SeqsUpTo(IndexLabels \X RowTemplates, MaxRows)}

LabelledBrandConfigs ==
    {[input_schema |-> [required_columns |-> <<"k">>, optional_columns |-> <<>>],
      pipeline |-> p, output_columns |-> <<"k", "a">>] :
        p \in SeqsUpTo({ValidateRequired, ValidateLenient, FilterStatus}, MaxSteps)}

InitLabelled ==
    /\ pc = "Pending"
    /\ df \in LabelledTables
    /\ brand_config \in LabelledBrandConfigs
    /\ context = NewContext
    /\ current_df = NoTable
    /\ i = 0
    /\ output = NoTable
    /\ result = NoResult
    /\ outcome = "running"
    /\ calls = <<>>
    /\ runs = <<>>
    /\ current_ref = "none"
    /\ given = df

SpecLabelled == InitLabelled /\ [][Next]_vars

\* -------------------------------------------------- sparse aggregation runs
\* Line-item tables of up to MaxOrders rows whose amount is sparse (NaN, None
\* or a value) within an order, aggregated per order with first_non_null,
\* with and without numeric coercion.
SparseRowTemplates ==
    { [k |-> Num(1), a |-> NaN], [k |-> Num(1), a |-> Num(2)],
      [k |-> Num(1), a |-> None], [k |-> Num(1), a |-> Str("7")],
      [k |-> Num(2), a |-> NaN], [k |-> Num(2), a |-> Str("x")] }

SparseTables ==
    {MakeTable(<<"k", "a">>, q) : q \in SeqsUpTo(SparseRowTemplates, MaxOrders)}

AggregateFirst(coerce) ==
    [step |-> "aggregate",
     config |-> [group_by |-> "k",
                 aggregations |-> <<Rule("f", "a", "first_non_null", coerce),
                                    Rule("n", "a", "count", FALSE)>>]]

SparseBrandConfigs ==
    {[input_schema |-> [required_columns |-> <<"k">>, optional_columns |-> <<>>],
      pipeline |-> <<AggregateFirst(coerce)>>, output_columns |-> <<"k", "f">>] :
        coerce \in BOOLEAN}

InitSparse ==
    /\ pc = "Pending"
    /\ df \in SparseTables
    /\ brand_config \in SparseBrandConfigs
    /\ context = NewContext
    /\ current_df = NoTable
    /\ i = 0
    /\ output = NoTable
    /\ result = NoResult
    /\ outcome = "running"
    /\ calls = <<>>
    /\ runs = <<>>
    /\ current_ref = "none"
    /\ given = df

SpecSparse == InitSparse /\ [][Next]_vars

\* ------------------------------------------------------- null-test filter runs
\* Tables whose status and amount columns hold None, NaN, the empty string,
\* a blank and real values, and filters that test one of the two columns with
\* is_null or is_not_null, case-sensitively or not.
NullRowTemplates ==
    { [k |-> Num(1), s |-> None, a |-> NaN],
      [k |-> Num(2), s |-> Str(" "), a |-> Num(2)],
      [k |-> Num(3), s |-> Str("x"), a |-> Str("")],
      [k |-> Num(4), s |-> Str(""), a |-> Str("7")] }

NullTables ==
    {MakeTable(<<"k", "s", "a">>, q) : q \in SeqsUpTo(NullRowTemplates, MaxRows)}

NullFilters ==
    {[step |-> "filter",
      config |-> [mode |-> "all_of",
                  conditions |-> <<Condition(column, operator, None, case_sensitive, FALSE)>>]] :
        column \in {"s", "a"}, operator \in {"is_null", "is_not_null"},
        case_sensitive \in BOOLEAN}

NullBrandConfigs ==
    {[input_schema |-> [required_columns |-> <<"k">>, optional_columns |-> <<>>],
      pipeline |-> p, output_columns |-> <<"k", "s", "a">>] :
        p \in SeqsUpTo(NullFilters, MaxSteps)}

InitNull ==
    /\ pc = "Pending"
    /\ df \in NullTables
    /\ brand_config \in NullBrandConfigs
    /\ context = NewContext
    /\ current_df = NoTable
    /\ i = 0
    /\ output = NoTable
    /\ result = NoResult
    /\ outcome = "running"
    /\ calls = <<>>
    /\ runs = <<>>
    /\ current_ref = "none"
    /\ given = df

SpecNull == InitNull /\ [][Next]_vars

\* ------------------------------------------------------------ end-to-end runs
\* A filter step followed by a transform step whose fields cover the declared
\* output columns, over order tables of up to MaxOrders rows. The filters
\* test the status, the status or the amount, and the absent column z.
OrderTables ==
    {MakeTable(<<"k", "s", "a">>, q) : q \in SeqsUpTo(RowTemplates, MaxOrders)}

OrderFilters ==
    { FilterStatus,
      FilterConditions("any_of", Condition("s", "equals", Str("x"), FALSE, FALSE)),
      FilterConditions("all_of", Condition("z", "equals", Str("x"), FALSE, FALSE)) }

OrderBrandConfigs ==
    {[input_schema |-> [required_columns |-> <<"k">>, optional_columns |-> <<"s">>],
      pipeline |-> <<f, TransformFields>>, output_columns |-> out] :
        f \in OrderFilters, out \in {<<"b", "a", "c">>, <<"c", "t">>}}

InitOrders ==
    /\ pc = "Pending"
    /\ df \in OrderTables
    /\ brand_config \in OrderBrandConfigs
    /\ context = NewContext
    /\ current_df = NoTable
    /\ i = 0
    /\ output = NoTable
    /\ result = NoResult
    /\ outcome = "running"
    /\ calls = <<>>
    /\ runs = <<>>
    /\ current_ref = "none"
    /\ given = df

SpecOrders == InitOrders /\ [][Next]_vars

\* ------------------------------------------------------ runs of one engine
\* Filters whose operand is a reference marker: into the global
\* configuration, and with a root that resolve_reference does not know.
FilterByVersion ==
    [step |-> "filter",
     config |-> [mode |-> "all_of",
                 conditions |-> <<Condition("a", "greater_than",
                                            Str("$ref:global.version"), FALSE, FALSE)>>]]

FilterByBrand ==
    [step |-> "filter",
     config |-> [mode |-> "all_of",
                 conditions |-> <<Condition("a", "greater_than",
                                            Str("$ref:brand.version"), FALSE, FALSE)>>]]

RunPipelines ==
    { <<>>, <<FilterByVersion>>, <<FilterByVersion, ValidateRequired>>,
      <<ValidateRequired>>, <<FilterByBrand>>, <<TransformFields>> }

RunBrandConfigs ==
    {[input_schema |-> [required_columns |-> <<"k">>, optional_columns |-> <<"z">>],
      pipeline |-> p, output_columns |-> <<"k", "a">>] : p \in RunPipelines}

RunTables ==
    { MakeTable(<<"k", "s", "a">>,
                <<[k |-> Num(1), s |-> Str("x"), a |-> Num(2)],
                  [k |-> Num(2), s |-> Str("7"), a |-> Str("7")]>>),
      MakeTable(<<"k", "a">>, <<[k |-> Num(1), s |-> Str("x"), a |-> Num(2)]>>) }

InitRuns ==
    /\ pc = "Pending"
    /\ df \in RunTables
    /\ brand_config \in RunBrandConfigs
    /\ context = NewContext
    /\ current_df = NoTable
    /\ i = 0
    /\ output = NoTable
    /\ result = NoResult
    /\ outcome = "running"
    /\ calls = <<>>
    /\ runs = <<>>
    /\ current_ref = "none"
    /\ given = df

\* process is called again on the same engine, after the previous call has
\* returned: new arguments, new locals. The context of the finished run is
\* what the engine last worked with until line 99 makes the new one.
ProcessAgain ==
    /\ pc = "Done"
    /\ Len(runs) + 1 < MaxRuns
    /\ runs' = Append(runs, [df |-> df, brand_config |-> brand_config,
                             output |-> output, result |-> result,
                             context |-> context])
    /\ df' \in RunTables
    /\ given' = df'
    /\ current_ref' = "none"
    /\ brand_config' \in RunBrandConfigs
    /\ pc' = "Pending"
    /\ current_df' = NoTable
    /\ i' = 0
    /\ output' = NoTable
    /\ result' = NoResult
    /\ outcome' = "running"
    /\ calls' = <<>>
    /\ UNCHANGED context

NextRuns == BeginProcess \/ ExecuteStep \/ Complete \/ ProcessAgain

SpecRuns == InitRuns /\ [][NextRuns]_vars

\* ------------------------------------------------- reference resolution runs
\* The strings handed to resolve_reference: markers into the global
\* configuration (a table, an entry, an absent entry, a path through a leaf,
\* an absent attribute), a marker with another root, and a plain string.
References ==
    { <<"$ref:", "global", "conversion_rates">>,
      <<"$ref:", "global", "tax_divisors", "UAE">>,
      <<"$ref:", "global", "tax_divisors", "QA">>,
      <<"$ref:", "global", "version", "major">>,
      <<"$ref:", "global", "rates">>,
      <<"$ref:", "brand", "rates">>,
      <<"USD">> }

\* One context, as a run creates it; `calls` records the resolutions made.
InitResolve ==
    /\ pc = "Resolving"
    /\ df = NoTable
    /\ brand_config \in {bc \in BrandConfigs : Len(bc.pipeline) = 0}
    /\ context = NewContext
    /\ current_df = NoTable
    /\ i = 0
    /\ output = NoTable
    /\ result = NoResult
    /\ outcome = "running"
    /\ calls = <<>>
    /\ runs = <<>>
    /\ current_ref = "none"
    /\ given = df

\* context.resolve_reference(ref).
Resolve ==
    /\ pc = "Resolving"
    /\ Len(calls) < MaxResolves
    /\ \E ref \in References :
          LET Record(r) ==
                  /\ context' = r.ctx
                  /\ calls' = Append(calls,
                         [ref |-> ref, raised |-> r.raised, value |-> r.value,
                          cache_before |-> context.ref_cache,
                          cache_after |-> r.ctx.ref_cache,
                          walked |-> r.ctx.walks > context.walks])
          IN  Record(ResolveReference(context, ref))
    /\ UNCHANGED <<pc, df, brand_config, current_df, i, output, result, outcome, runs,
                   current_ref, given>>

SpecResolve == InitResolve /\ [][Resolve]_vars

\* ------------------------------------------------------ formula evaluation runs
\* Post-substitution expression texts: arithmetic ones, and texts with another
\* operator, a name, a call, a bracketed and a quoted literal.
ExpressionTexts ==
    { <<"6">>, <<"6", "+", "2">>, <<"6", "-", "2">>, <<"6", "*", "2">>,
      <<"6", "/", "2">>, <<"6", "/", "0">>, <<"(", "6", "+", "2", ")">>, <<"6", "2">>,
      <<"6", "**", "2">>, <<"6", "<", "2">>, <<"abs", "(", "6", ")">>, <<"x">>,
      <<"(", "6", ")", ".", "__neg__", "(", ")">>, <<"[", "6", "]">>,
      <<"'", "x", "'">> }

InitEvaluate ==
    /\ pc = "Evaluating"
    /\ df = NoTable
    /\ brand_config \in {bc \in BrandConfigs : Len(bc.pipeline) = 0}
    /\ context = NewContext
    /\ current_df = NoTable
    /\ i = 0
    /\ output = NoTable
    /\ result = NoResult
    /\ outcome = "running"
    /\ calls = <<>>
    /\ runs = <<>>
    /\ current_ref = "none"
    /\ given = df

\* One formula field whose expression, after substitution, reads `text`.
Evaluate ==
    /\ pc = "Evaluating"
    /\ Len(calls) < MaxEvaluations
    /\ \E text \in ExpressionTexts :
          LET Record(r) ==
                  /\ context' = r.ctx
                  /\ calls' = Append(calls,
                         [text |-> text, value |-> r.value,
                          entries |-> SubSeq(r.ctx.log, Len(context.log) + 1,
                                             Len(r.ctx.log))])
          IN  Record(EvaluateExpression(context, text, Len(calls)))
    /\ UNCHANGED <<pc, df, brand_config, current_df, i, output, result, outcome, runs,
                   current_ref, given>>

SpecEvaluate == InitEvaluate /\ [][Evaluate]_vars

\* ----------------------------------------------------------- phone transformer
\* A phone value is None, NaN, or the text of str(phone) as a sequence of
\* characters (a float phone 501234567.0 is the text "501234567.0"). A country
\* value is a cell.
Text(chars) == [kind |-> "text", chars |-> chars]

\* str(phone).
PhoneStr(phone) ==
    CASE phone.kind = "text" -> phone.chars
      [] phone.kind = "nan" -> <<"n", "a", "n">>
      [] OTHER -> <<"N", "o", "n", "e">>

\* text.startswith(prefix).
StartsWith(text, prefix) ==
    Len(text) >= Len(prefix) /\ SubSeq(text, 1, Len(prefix)) = prefix

\* text.replace(old, ""): the occurrences of `old`, found from the left without
\* overlap, are removed.
Remove(text, old) ==
    LET from[k \in 1..(Len(text) + 1)] ==
            IF k > Len(text) THEN <<>>
            ELSE IF k + Len(old) - 1 <= Len(text)
                    /\ SubSeq(text, k, k + Len(old) - 1) = old
            THEN (IF k + Len(old) > Len(text) THEN <<>> ELSE from[k + Len(old)])
            ELSE <<text[k]>> \o from[k + 1]
    IN  from[1]

\* GlobalConfig.country_phone_codes, the default rules.
CountryPhoneCodes ==
    << [patterns |-> <<"AE", "United Arab Emirates", "UAE">>,
        code |-> <<"+", "9", "7", "1">>, digits_to_keep |-> 9],
       [patterns |-> <<"SA", "Saudi Arabia", "KSA">>,
        code |-> <<"+", "9", "6", "6">>, digits_to_keep |-> 9],
       [patterns |-> <<"KW", "Kuwait">>,
        code |-> <<"+", "9", "6", "5">>, digits_to_keep |-> 9],
       [patterns |-> <<"BH", "Bahrain">>,
        code |-> <<"+", "9", "7", "3">>, digits_to_keep |-> 9] >>

\* str.upper() and str.strip() on the country texts of the model.
UpperText(s) ==
    CASE s \in {"United Arab Emirates", "united arab emirates"} -> "UNITED ARAB EMIRATES"
      [] s = "Saudi Arabia" -> "SAUDI ARABIA"
      [] s = "Kuwait" -> "KUWAIT"
      [] s = "Bahrain" -> "BAHRAIN"
      [] s = " ksa " -> " KSA "
      [] s = "France" -> "FRANCE"
      [] s = "None" -> "NONE"
      [] s = "nan" -> "NAN"
      [] OTHER -> s

StripText(s) == CASE s = " KSA " -> "KSA" [] s = " ksa " -> "ksa" [] OTHER -> s

\* GlobalConfig.get_phone_code: <<>> for None, else <<rule>> for the first
\* rule one of whose patterns matches.
GetPhoneCode(country) ==
    LET country_upper == StripText(UpperText(PyStr(country)))
        matching == SelectSeq(CountryPhoneCodes,
                        LAMBDA config : \E k \in 1..Len(config.patterns) :
                                            UpperText(config.patterns[k]) = country_upper)
    IN  IF Len(matching) > 0 THEN <<matching[1]>> ELSE <<>>

\* PhoneTransformer.transform, lines 193-200: the cleaned number.
CleanPhone(phone) ==
    LET phone_str == Remove(Remove(Remove(PhoneStr(phone), <<" ">>), <<".", "0">>), <<"-">>)
        unsigned == IF StartsWith(phone_str, <<"+">>) THEN Tail(phone_str) ELSE phone_str
    IN  IF StartsWith(unsigned, <<"0", "0">>) THEN Tail(Tail(unsigned)) ELSE unsigned

\* A variant of the transformer with a slip: the first digits_to_keep
\* characters are kept instead of the last.
PhoneTransformLeading(ctx, row, mapping, row_index) ==
    LET Format(phone_str, phone_config) ==
            IF Len(phone_config) > 0
            THEN Text(phone_config[1].code \o
                      (IF Len(phone_str) >= phone_config[1].digits_to_keep
                       THEN SubSeq(phone_str, 1, phone_config[1].digits_to_keep)
                       ELSE phone_str))
            ELSE Text(phone_str)
        Lookup(country, phone) ==
            IF phone.kind = "none" THEN Returned(ctx, None)
            ELSE Returned(ctx, Format(CleanPhone(phone), GetPhoneCode(country)))
    IN  IF Len(mapping.phone) = 0 THEN Returned(ctx, None)
        ELSE Lookup(GetColumnValue(row, mapping.phone[1].country_column, None),
                    GetColumnValue(row, mapping.phone[1].phone_column, None))

\* PhoneTransformer.transform. mapping.phone is <<>> for None, else
\* <<[country_column, phone_column]>>.
PhoneTransform(ctx, row, mapping, row_index) ==
    LET Format(phone_str, phone_config) ==
            IF Len(phone_config) > 0
            THEN Text(phone_config[1].code \o
                      (IF Len(phone_str) >= phone_config[1].digits_to_keep
                       THEN SubSeq(phone_str,
                                   Len(phone_str) - phone_config[1].digits_to_keep + 1,
                                   Len(phone_str))
                       ELSE phone_str))
            ELSE Text(phone_str)
        Lookup(country, phone) ==
            IF phone.kind = "none" THEN Returned(ctx, None)
            ELSE Returned(ctx, Format(CleanPhone(phone), GetPhoneCode(country)))
    IN  IF Len(mapping.phone) = 0 THEN Returned(ctx, None)
        ELSE Lookup(GetColumnValue(row, mapping.phone[1].country_column, None),
                    GetColumnValue(row, mapping.phone[1].phone_column, None))

\* ------------------------------------------------------- phone formatting runs
\* Countries as the files name them (a rule's name in another case or padded
\* with blanks, a code, an unknown country, a missing value) and phone values
\* as they arrive: local and international forms, with separators, with the
\* ".0" of a float, short ones, a missing value.
Countries ==
    { Str("United Arab Emirates"), Str("united arab emirates"), Str("Saudi Arabia"),
      Str(" ksa "), Str("France"), None }

Phones ==
    { Text(<<"0", "5", "0", "1", "2", "3", "4", "5", "6", "7">>),
      Text(<<"5", "5", "1", "2", "3", "4", "5", "6", "7">>),
      Text(<<"5", "0", "1", "2", "3", "4", "5", "6", "7", ".", "0">>),
      Text(<<"+", "9", "7", "1", " ", "5", "0", "-", "1", "2", "3", "-", "4", "5", "6", "7">>),
      Text(<<"0", "0", "9", "6", "6", "5", "5", "1", "2", "3", "4", "5", "6", "7">>),
      Text(<<"1", "2", "-", "3", "4">>),
      None }

PhoneMappings ==
    { [type |-> "phone", phone |-> <<>>],
      [type |-> "phone",
       phone |-> <<[country_column |-> "country", phone_column |-> "phone"]>>] }

\* brand_config holds the field mapping; each call formats one row.
InitPhone ==
    /\ pc = "Formatting"
    /\ df = NoTable
    /\ brand_config \in PhoneMappings
    /\ context = NewContext
    /\ current_df = NoTable
    /\ i = 0
    /\ output = NoTable
    /\ result = NoResult
    /\ outcome = "running"
    /\ calls = <<>>
    /\ runs = <<>>
    /\ current_ref = "none"
    /\ given = df

\* PhoneTransformer(context).transform(row, mapping, row_index).
FormatPhone ==
    /\ pc = "Formatting"
    /\ Len(calls) < MaxFormats
    /\ \E country \in Countries, phone \in Phones :
          LET Record(r) ==
                  /\ context' = r.ctx
                  /\ calls' = Append(calls,
                         [country |-> country, phone |-> phone, value |-> r.value])
          IN  Record(PhoneTransform(context, [country |-> country, phone |-> phone],
                                    brand_config, Len(calls)))
    /\ UNCHANGED <<pc, df, brand_config, current_df, i, output, result, outcome, runs,
                   current_ref, given>>

SpecPhone == InitPhone /\ [][FormatPhone]_vars

\* ------------------------------------------------------------ config loading
\* The construction of one FieldMapping: brand_config holds the mapping's
\* declared type and supplied attributes, outcome what the constructor did.
InitLoad ==
    /\ pc = "Loading"
    /\ df = NoTable
    /\ brand_config \in [type : TransformTypes, given : SUBSET MappingAttributes]
    /\ context = NewContext
    /\ current_df = NoTable
    /\ i = 0
    /\ output = NoTable
    /\ result = NoResult
    /\ outcome = "running"
    /\ calls = <<>>
    /\ runs = <<>>
    /\ current_ref = "none"
    /\ given = df

\* FieldMapping(**data): the model validator runs after the fields are set.
LoadMapping ==
    /\ pc = "Loading"
    /\ outcome' = IF ValidateTypeConfig(brand_config) THEN "rejected" ELSE "constructed"
    /\ pc' = "Done"
    /\ UNCHANGED <<df, brand_config, context, current_df, i, output, result, calls, runs,
                   current_ref, given>>

SpecLoad == InitLoad /\ [][LoadMapping]_vars

\* -------------------------------------------------------------------- claims
Severe(e) == e.severity \in {ERROR, CRITICAL}

Criticals(q) == SelectSeq(q, LAMBDA e : e.severity = CRITICAL)

MissingRequired ==
    SelectSeq(brand_config.input_schema.required_columns,
              LAMBDA col : ~HasColumn(df, col))

MissingOptional ==
    SelectSeq(brand_config.input_schema.optional_columns,
              LAMBDA col : ~HasColumn(df, col))

\* C1: once process has validated the schema, a missing required column means
\* the run has returned: one CRITICAL entry per missing required column, no
\* step executed and no step result, output none, success false and
\* output_rows 0. With every required column present the run is not stopped,
\* and the missing optional columns are recorded as WARNING entries only.
C1_SchemaAbort ==
    pc # "Pending" =>
        /\ Len(MissingRequired) > 0 =>
              /\ pc = "Done" /\ outcome = "schema_abort"
              /\ result.errors =
                    [k \in 1..Len(MissingRequired) |->
                        RowError(0, NoColumn,
                                 <<"Missing required column: ", MissingRequired[k]>>,
                                 CRITICAL)]
              /\ calls = <<>>
              /\ result.step_results = <<>>
              /\ output = NoTable
              /\ result.success = FALSE
              /\ result.output_rows = 0
        /\ Len(MissingRequired) = 0 =>
              /\ outcome # "schema_abort"
              /\ Len(context.log) >= Len(MissingOptional)
              /\ SubSeq(context.log, 1, Len(MissingOptional)) =
                    [k \in 1..Len(MissingOptional) |->
                        RowError(0, NoColumn,
                                 <<"Optional column not found: ", MissingOptional[k]>>,
                                 WARNING)]

C1_Witness ==
    /\ outcome = "schema_abort"
    /\ Len(MissingRequired) = 2
    /\ Len(result.errors) = 2
    /\ Len(result.warnings) = 1

\* C2: a run that met an unregistered step type or a raising step has
\* returned: exactly one CRITICAL entry, the last recorded one, output none,
\* success false, and the failing step is the last one touched: no execute
\* call was made for a later position. A raising call is always the last call.
C2_StepAbort ==
    /\ \A j \in 1..Len(calls) :
          calls[j].raised => (j = Len(calls) /\ outcome = "step_abort")
    /\ (pc = "Steps" /\ i <= Len(brand_config.pipeline)) => outcome = "running"
    /\ outcome = "step_abort" =>
          /\ pc = "Done"
          /\ output = NoTable
          /\ result.success = FALSE
          /\ result.output_rows = 0
          /\ Len(Criticals(result.errors)) = 1
          /\ Len(Criticals(result.warnings)) = 0
          /\ context.log[Len(context.log)].severity = CRITICAL
          /\ \A j \in 1..Len(calls) : calls[j].position <= i
          /\ \/ brand_config.pipeline[i].step \notin StepExecutors
                   /\ Len(calls) = i - 1
             \/ Len(calls) = i /\ calls[i].raised

C2_Witness ==
    /\ outcome = "step_abort"
    /\ Len(calls) = 1
    /\ calls[1].raised
    /\ Len(brand_config.pipeline) = 2

\* C3 (as claimed): a run ended by a step returning zero rows has output none,
\* a WARNING recorded for it and success true, whatever the ledger holds.
C3_ZeroRowsSucceeds ==
    outcome = "zero_rows" =>
        /\ output = NoTable
        /\ result.warnings[Len(result.warnings)].message[1] =
              "Step produced no output rows: "
        /\ result.success = TRUE

\* C5 (as claimed): a run that executed every step and ordered the columns
\* without any CRITICAL entry reports success true.
C5_CompleteSucceeds ==
    (outcome = "complete" /\ Len(Criticals(result.errors)) = 0) =>
        result.success = TRUE

MissingOutput ==
    SelectSeq(brand_config.output_columns, LAMBDA col : ~HasColumn(current_df, col))

MissingOutputEntries(q) ==
    SelectSeq(q, LAMBDA e : e.message[1] = "Missing output columns: ")

\* C4: a returned table has exactly the declared output columns, in order,
\* and the rows (labels and order) of the last step's table; a declared
\* column the last step produced keeps its values, one it did not produce is
\* None in every row, undeclared columns are gone, and exactly one ERROR
\* entry naming the missing columns is recorded when some column was missing
\* (none otherwise). A table is returned exactly by the normal return.
C4_OutputColumns ==
    /\ (output # NoTable) <=> (outcome = "complete")
    /\ outcome = "complete" =>
          /\ output.columns = brand_config.output_columns
          /\ Labels(output) = Labels(current_df)
          /\ \A j \in 1..NRows(output) :
                /\ DOMAIN output.rows[j].vals = Range(brand_config.output_columns)
                /\ \A c \in Range(brand_config.output_columns) :
                      output.rows[j].vals[c] =
                          IF HasColumn(current_df, c)
                          THEN current_df.rows[j].vals[c] ELSE None
          /\ MissingOutputEntries(result.warnings) = <<>>
          /\ MissingOutputEntries(result.errors) =
                IF Len(MissingOutput) = 0 THEN <<>>
                ELSE <<RowError(context.current_row, NoColumn,
                                <<"Missing output columns: ">> \o MissingOutput, ERROR)>>

C4_Witness ==
    /\ outcome = "complete"
    /\ NRows(output) = 2
    /\ Len(MissingOutput) = 1
    /\ Len(current_df.columns) = 4

\* C6: the execute calls follow the declared order, one per position: the
\* j-th call is for pipeline step j, the first call receives the content of
\* the caller's table and every later call the table the previous call
\* returned; a run reaches column ordering only with every step called once,
\* the last of them having returned a non-empty table, and that table is the
\* one ordered.
C6_StepOrder ==
    /\ \A j \in 1..Len(calls) :
          /\ calls[j].position = j
          /\ calls[j].step = brand_config.pipeline[j].step
          /\ calls[j].input = IF j = 1 THEN df ELSE calls[j - 1].returned
    /\ Len(calls) <= Len(brand_config.pipeline)
    /\ (pc = "Steps") => (Len(calls) = i - 1)
    /\ outcome = "complete" =>
          /\ Len(calls) = Len(brand_config.pipeline)
          /\ \A j \in 1..Len(calls) :
                ~calls[j].raised /\ NRows(calls[j].returned) > 0
          /\ current_df = IF Len(calls) = 0 THEN df
                          ELSE calls[Len(calls)].returned

C6_Witness ==
    /\ outcome = "complete"
    /\ Len(calls) = 2
    /\ calls[1].returned # calls[1].input
    /\ calls[2].returned # calls[2].input

\* C7: in every state the errors list is the ERROR/CRITICAL entries and the
\* warnings list the other entries handed to add_error so far, each in call
\* order, and on every exit path the returned result carries exactly these
\* two lists.
C7_LedgerKeepsEverything ==
    /\ context.errors = SelectSeq(context.log, Severe)
    /\ context.warnings = SelectSeq(context.log, LAMBDA e : ~Severe(e))
    /\ pc = "Done" =>
          /\ outcome \in {"schema_abort", "step_abort", "zero_rows", "complete"}
          /\ result.errors = context.errors
          /\ result.warnings = context.warnings

C7_Witness ==
    /\ outcome = "zero_rows"
    /\ Cardinality(result.quarantined_rows) = 2
    /\ Len(result.errors) >= 2
    /\ Len(result.warnings) >= 3

\* The execute calls of transform steps, and what each was configured with.
TransformCalls == {n \in 1..Len(calls) : calls[n].step = "transform"}

MappingsOf(n) == brand_config.pipeline[n].config.mappings

FieldNames(n) == [k \in 1..Len(MappingsOf(n)) |-> MappingsOf(n)[k].name]

\* The input row overlaid with the output fields at positions < k.
RowView(n, j, k) ==
    LET earlier == {FieldNames(n)[m] : m \in 1..(k - 1)}
        row == calls[n].input.rows[j].vals
    IN  [c \in (DOMAIN row) \cup earlier |->
            IF c \in earlier THEN calls[n].returned.rows[j].vals[c] ELSE row[c]]

\* What the transformer of mapping k yields on that view.
Evaluated(n, j, k) ==
    Transform(NewContext, RowView(n, j, k), MappingsOf(n)[k].mapping,
              calls[n].input.rows[j].idx)

\* C8: in every transform call, the transformer of the mapping at position k
\* of row j was handed the input row j overlaid with the values of the output
\* fields at positions < k of that same row (so an output field named like an
\* input column hides the input value, and nothing of another row is seen),
\* and the field's value is what the transformer yields on that view.
C8_RowChaining ==
    \A n \in TransformCalls :
      Len(MappingsOf(n)) > 0 =>
        /\ Len(calls[n].views) = NRows(calls[n].input)
        /\ \A j \in 1..NRows(calls[n].input) :
              /\ Len(calls[n].views[j]) = Len(MappingsOf(n))
              /\ \A k \in 1..Len(MappingsOf(n)) :
                    /\ calls[n].views[j][k] = RowView(n, j, k)
                    /\ calls[n].returned.rows[j].vals[FieldNames(n)[k]] =
                          IF Evaluated(n, j, k).raised THEN None
                          ELSE Evaluated(n, j, k).value

C8_Witness ==
    \E n \in TransformCalls :
        /\ NRows(calls[n].input) = 2
        /\ calls[n].input.rows[1].vals # calls[n].input.rows[2].vals
        /\ HasColumn(calls[n].input, "a")
        /\ calls[n].input.rows[1].vals["a"] = Num(2)
        /\ calls[n].returned.rows[1].vals["b"] = Num(5)
        /\ calls[n].views[1][2]["a"] = Num(5)

\* C9: in every transform call, a mapping whose transformer raises on its row
\* view leaves exactly one ledger entry with that field name and row index, a
\* WARNING; the field is None for that row and in the views of the later
\* mappings of the row; every mapping of every row is still evaluated and the
\* step returns normally with all rows.
C9_FieldFailure ==
    \A n \in TransformCalls :
      Len(MappingsOf(n)) > 0 =>
        /\ ~calls[n].raised
        /\ NRows(calls[n].returned) = NRows(calls[n].input)
        /\ Len(calls[n].views) = NRows(calls[n].input)
        /\ \A j \in 1..NRows(calls[n].input) :
              /\ Len(calls[n].views[j]) = Len(MappingsOf(n))
              /\ \A k \in 1..Len(MappingsOf(n)) :
                    Evaluated(n, j, k).raised =>
                        /\ calls[n].returned.rows[j].vals[FieldNames(n)[k]] = None
                        /\ SelectSeq(calls[n].entries,
                               LAMBDA e : e.column = FieldNames(n)[k]
                                          /\ e.row_index = calls[n].input.rows[j].idx)
                              = <<RowError(calls[n].input.rows[j].idx, FieldNames(n)[k],
                                           <<"Transform failed for ", FieldNames(n)[k]>>,
                                           WARNING)>>
                        /\ \A m \in (k + 1)..Len(MappingsOf(n)) :
                              calls[n].views[j][m][FieldNames(n)[k]] = None

C9_Witness ==
    \E n \in TransformCalls :
        /\ NRows(calls[n].input) = 2
        /\ Evaluated(n, 1, 3).raised
        /\ ~Evaluated(n, 2, 3).raised
        /\ calls[n].returned.rows[1].vals["c"] = Num(5)
        /\ calls[n].returned.rows[2].vals["c"] = Num(12)

\* C10: a transform call with a non-empty mapping set returns a table whose
\* columns are the mapped field names in declaration order, with the rows of
\* its input: same number, same index labels, same order; no input column
\* that is not a mapped field name is in it.
C10_TransformShape ==
    \A n \in TransformCalls :
        Len(MappingsOf(n)) > 0 =>
            /\ calls[n].returned.columns = FieldNames(n)
            /\ NRows(calls[n].returned) = NRows(calls[n].input)
            /\ Labels(calls[n].returned) = Labels(calls[n].input)
            /\ \A j \in 1..NRows(calls[n].returned) :
                  DOMAIN calls[n].returned.rows[j].vals = Range(FieldNames(n))
            /\ \A c \in Range(calls[n].input.columns) \ Range(FieldNames(n)) :
                  ~HasColumn(calls[n].returned, c)

C10_Witness ==
    \E n \in TransformCalls :
        /\ Labels(calls[n].input) = <<1>>
        /\ HasColumn(calls[n].input, "k")
        /\ calls[n].returned.columns = <<"a", "b", "t", "c">>

\* ---------------------------------------------------------------- filter step
FilterCalls == {n \in 1..Len(calls) : calls[n].step = "filter" /\ ~calls[n].raised}

ConditionsOf(n) == brand_config.pipeline[n].config.conditions

\* The conditions of call n that take part in the combination: all but those
\* on an absent column with skip_if_column_missing set.
Included(n) ==
    {m \in 1..Len(ConditionsOf(n)) :
        HasColumn(calls[n].input, ConditionsOf(n)[m].column)
        \/ ~ConditionsOf(n)[m].skip_if_column_missing}

MaskOf(n, m) == EvaluateCondition(NewContext, calls[n].input, ConditionsOf(n)[m]).mask

\* The positions of the input rows that the combination of the masks keeps.
Kept(n) ==
    {j \in 1..NRows(calls[n].input) :
        IF brand_config.pipeline[n].config.mode = "all_of"
        THEN \A m \in Included(n) : MaskOf(n, m)[j]
        ELSE \E m \in Included(n) : MaskOf(n, m)[j]}

\* The table holds exactly the input rows at the positions of `keep`, in
\* input order, labels and values unchanged.
IsSelection(t, input, keep) ==
    /\ t.columns = input.columns
    /\ NRows(t) = Cardinality(keep)
    /\ \A j \in keep : t.rows[Cardinality({k \in keep : k <= j})] = input.rows[j]

\* C11: a filter call keeps exactly the rows for which the AND (all_of) or
\* the OR (any_of) of the masks of the conditions that were not excluded is
\* true, in input order and with their index labels; with no condition, or
\* with every condition excluded, it returns its input unchanged.
C11_FilterCombination ==
    \A n \in FilterCalls :
        IF Included(n) = {}
        THEN calls[n].returned = calls[n].input
        ELSE IsSelection(calls[n].returned, calls[n].input, Kept(n))

C11_Witness ==
    \E n \in FilterCalls :
        /\ brand_config.pipeline[n].config.mode = "any_of"
        /\ Cardinality(Included(n)) = 2
        /\ Labels(calls[n].input) = <<0, 1>>
        /\ Labels(calls[n].returned) = <<1>>
        /\ calls[n].returned.rows[1].vals["s"] = Str("7")
        /\ \E m \in FilterCalls : Included(m) = {} /\ NRows(calls[m].input) > 0

\* The configuration of call n with condition m left out of the list.
WithoutCondition(n, m) ==
    [brand_config.pipeline[n].config EXCEPT
        !.conditions = SubSeq(@, 1, m - 1) \o SubSeq(@, m + 1, Len(@))]

\* C12 (as claimed): a condition on an absent column that is not skipped
\* records one ERROR, and in either mode the rows kept are those the step
\* keeps with that condition left out of the list.
C12_MissingColumnBypassed ==
    \A n \in FilterCalls :
        \A m \in 1..Len(ConditionsOf(n)) :
            (/\ ~HasColumn(calls[n].input, ConditionsOf(n)[m].column)
             /\ ~ConditionsOf(n)[m].skip_if_column_missing) =>
                /\ \E e \in 1..Len(calls[n].entries) :
                      /\ calls[n].entries[e].severity = ERROR
                      /\ calls[n].entries[e].message =
                            <<"Filter column not found: ", ConditionsOf(n)[m].column>>
                /\ calls[n].returned.rows =
                      FilterStep(NewContext, calls[n].input, WithoutCondition(n, m)).table.rows

\* ------------------------------------------------------------- aggregate step
AggregateCalls == {n \in 1..Len(calls) : calls[n].step = "aggregate"}

GroupBy(n) == brand_config.pipeline[n].config.group_by

RulesOf(n) == brand_config.pipeline[n].config.aggregations

\* The rules of call n whose source column is in the input, resp. absent.
ValidRules(n) == SelectSeq(RulesOf(n), LAMBDA r : HasColumn(calls[n].input, r.source))

SkippedRules(n) == SelectSeq(RulesOf(n), LAMBDA r : ~HasColumn(calls[n].input, r.source))

\* C13: an aggregate call on a table without the group_by column returns its
\* input unchanged, records exactly one entry, of severity ERROR, and does
\* not raise; the run goes on with that table.
C13_MissingGroupBy ==
    \A n \in AggregateCalls :
        ~HasColumn(calls[n].input, GroupBy(n)) =>
            /\ ~calls[n].raised
            /\ calls[n].returned = calls[n].input
            /\ Len(calls[n].entries) = 1
            /\ calls[n].entries[1].severity = ERROR
            /\ calls[n].entries[1].message = <<"Group by column not found: ", GroupBy(n)>>
            /\ outcome # "step_abort"
            /\ (pc = "Steps" /\ i = n + 1) => current_df = calls[n].input

C13_Witness ==
    /\ pc = "Steps"
    /\ i = 2
    /\ 1 \in AggregateCalls
    /\ GroupBy(1) = "z"
    /\ NRows(calls[1].input) = 2
    /\ NRows(current_df) = 2

\* The values of column c in the rows of call n's input whose key is `key`,
\* parsed to numbers when the rule asks for it.
MemberValues(n, key, rule) ==
    LET members == SelectSeq(calls[n].input.rows, LAMBDA r : r.vals[GroupBy(n)] = key)
    IN  [j \in 1..Len(members) |->
            IF \E r \in Range(ValidRules(n)) : r.source = rule.source /\ r.coerce_numeric
            THEN ToNumeric(members[j].vals[rule.source])
            ELSE members[j].vals[rule.source]]

\* C14: with the group_by column present, each rule whose source column is
\* absent leaves exactly one WARNING and no column in the result, while the
\* other rules are computed; when no rule is left, the call records one ERROR
\* after the warnings and returns its input unchanged.
C14_SkippedRules ==
    \A n \in AggregateCalls :
        HasColumn(calls[n].input, GroupBy(n)) =>
            /\ ~calls[n].raised
            /\ SelectSeq(calls[n].entries, LAMBDA e : e.severity = WARNING) =
                  [k \in 1..Len(SkippedRules(n)) |->
                      RowError(calls[n].entries[1].row_index, NoColumn,
                               <<"Aggregation source column not found: ",
                                 SkippedRules(n)[k].source>>, WARNING)]
            /\ IF Len(ValidRules(n)) = 0
               THEN /\ calls[n].returned = calls[n].input
                    /\ Len(calls[n].entries) = Len(SkippedRules(n)) + 1
                    /\ calls[n].entries[Len(calls[n].entries)].severity = ERROR
                    /\ calls[n].entries[Len(calls[n].entries)].message =
                          <<"No valid aggregations to perform">>
               ELSE /\ Len(calls[n].entries) = Len(SkippedRules(n))
                    /\ \A k \in 1..Len(SkippedRules(n)) :
                          ~HasColumn(calls[n].returned, SkippedRules(n)[k].name)
                    /\ \A k \in 1..Len(ValidRules(n)) :
                          /\ HasColumn(calls[n].returned, ValidRules(n)[k].name)
                          /\ \A j \in 1..NRows(calls[n].returned) :
                                calls[n].returned.rows[j].vals[ValidRules(n)[k].name] =
                                   Reduce(ValidRules(n)[k].function,
                                          MemberValues(n,
                                             calls[n].returned.rows[j].vals[GroupBy(n)],
                                             ValidRules(n)[k]))

C14_Witness ==
    /\ \E n \in AggregateCalls :
          /\ Len(SkippedRules(n)) = 1
          /\ Len(ValidRules(n)) = 1
          /\ NRows(calls[n].input) = 2
          /\ NRows(calls[n].returned) = 1
          /\ calls[n].returned.columns = <<"k", "s">>
    /\ \E n \in AggregateCalls :
          /\ HasColumn(calls[n].input, GroupBy(n))
          /\ Len(SkippedRules(n)) = 1
          /\ Len(ValidRules(n)) = 0
          /\ Len(calls[n].entries) = 2
          /\ NRows(calls[n].returned) = 1

\* The values of the group_by column occurring in the input of call n.
InputKeys(n) == {calls[n].input.rows[j].vals[GroupBy(n)] : j \in 1..NRows(calls[n].input)}

\* C15 (as claimed): with the group_by column present and a valid rule, the
\* result has exactly one row for each value of the group_by column occurring
\* in the input, none lost, and its columns are the group_by column followed
\* by one column per valid rule.
C15_OneRowPerKey ==
    \A n \in AggregateCalls :
        (HasColumn(calls[n].input, GroupBy(n)) /\ Len(ValidRules(n)) > 0) =>
            /\ calls[n].returned.columns =
                  <<GroupBy(n)>> \o [k \in 1..Len(ValidRules(n)) |-> ValidRules(n)[k].name]
            /\ NRows(calls[n].returned) = Cardinality(InputKeys(n))
            /\ \A key \in InputKeys(n) :
                  \E j \in 1..NRows(calls[n].returned) :
                      calls[n].returned.rows[j].vals[GroupBy(n)] = key

\* -------------------------------------------------------------- validate step
ValidateCalls == {n \in 1..Len(calls) : calls[n].step = "validate"}

RequiredOf(n) == ConfigGet(brand_config.pipeline[n].config, "required_fields", <<>>)

QuarantineOf(n) == ConfigGet(brand_config.pipeline[n].config, "quarantine_invalid", TRUE)

\* The required fields of call n that are absent from its input.
AbsentFields(n) == {f \in Range(RequiredOf(n)) : ~HasColumn(calls[n].input, f)}

\* The 'Row quarantined' entries among a sequence of ledger entries.
QuarantineEntries(q) == SelectSeq(q, LAMBDA e : e.message[1] = "Row quarantined: ")

\* C16 (as claimed): an absent required field records an ERROR for the row
\* without invalidating it, so even with quarantine_invalid the row stays in
\* the output and is not quarantined; an empty required value and a type
\* mismatch record a WARNING only.
C16_AbsentFieldKeepsRow ==
    \A n \in ValidateCalls :
        /\ \A j \in 1..NRows(calls[n].input) : \A f \in AbsentFields(n) :
              \E e \in 1..Len(calls[n].entries) :
                  calls[n].entries[e] =
                     RowError(calls[n].input.rows[j].idx, f,
                              <<"Required field missing: ", f>>, ERROR)
        /\ \A e \in 1..Len(calls[n].entries) :
              calls[n].entries[e].message[1] \in
                  {"Required field is empty: ", "Field has invalid type: "} =>
                      calls[n].entries[e].severity = WARNING
        /\ calls[n].returned.rows = calls[n].input.rows
        /\ Len(QuarantineEntries(calls[n].entries)) = 0
        /\ context.quarantined_rows = {}

\* The positions of the input rows of call n that the step flagged invalid.
Flagged(n) == {j \in 1..NRows(calls[n].input) : AbsentFields(n) # {}}

\* The rows quarantined up to and including call n, read from the ledger.
QuarantinedBy(n) ==
    UNION {{e.row_index : e \in Range(QuarantineEntries(calls[m].entries))} : m \in 1..n}

\* C17: a validate call removes exactly the rows flagged invalid when
\* quarantine_invalid is set and none otherwise; each removed row has its
\* index in the quarantine set and one 'Row quarantined' entry with the
\* reason; no row of the returned table has its index in the quarantine set.
C17_QuarantineRemoves ==
    /\ context.quarantined_rows = QuarantinedBy(Len(calls))
    /\ \A n \in ValidateCalls :
          LET removed == IF QuarantineOf(n) THEN Flagged(n) ELSE {}
          IN  /\ ~calls[n].raised
              /\ IsSelection(calls[n].returned, calls[n].input,
                             (1..NRows(calls[n].input)) \ removed)
              /\ QuarantineEntries(calls[n].entries) =
                    SelectSeq([j \in 1..NRows(calls[n].input) |->
                                  RowError(calls[n].input.rows[j].idx, NoColumn,
                                           <<"Row quarantined: ", "Failed validation">>,
                                           WARNING)],
                              LAMBDA e : \E j \in removed :
                                            calls[n].input.rows[j].idx = e.row_index)
              /\ \A j \in removed :
                    calls[n].input.rows[j].idx \in context.quarantined_rows
              /\ \A j \in 1..NRows(calls[n].returned) :
                    calls[n].returned.rows[j].idx \notin QuarantinedBy(n)

C17_Witness ==
    /\ Len(calls) = 2
    /\ ValidateCalls = {1, 2}
    /\ ~QuarantineOf(1)
    /\ Flagged(1) = {1, 2}
    /\ NRows(calls[1].returned) = 2
    /\ QuarantineOf(2)
    /\ NRows(calls[2].returned) = 0
    /\ context.quarantined_rows = {0, 1}
    /\ result.quarantined_rows = {0, 1}

\* ------------------------------------------------------- reference resolution
\* C18: within one context, two resolutions of the same marker that return
\* give the same value, and every one after the first is answered from the
\* cache without a walk of the global configuration; a string that is no
\* marker is returned as it is and never enters the cache; a marker whose
\* root is not 'global' raises and leaves the cache as it was.
C18_ReferenceCache ==
    /\ \A n \in 1..Len(calls) : \A m \in (n + 1)..Len(calls) :
          (calls[n].ref = calls[m].ref /\ IsMarker(calls[n].ref) /\ ~calls[n].raised) =>
              /\ ~calls[m].raised
              /\ calls[m].value = calls[n].value
              /\ ~calls[m].walked
              /\ calls[m].ref \in DOMAIN calls[m].cache_before
    /\ \A n \in 1..Len(calls) :
          ~IsMarker(calls[n].ref) =>
              /\ ~calls[n].raised
              /\ calls[n].value = Leaf(calls[n].ref)
              /\ calls[n].cache_after = calls[n].cache_before
              /\ calls[n].ref \notin DOMAIN context.ref_cache
    /\ \A n \in 1..Len(calls) :
          (IsMarker(calls[n].ref) /\ calls[n].ref[2] # "global") =>
              /\ calls[n].raised
              /\ calls[n].cache_after = calls[n].cache_before

C18_Witness ==
    /\ Len(calls) = 3
    /\ calls[1].ref = <<"$ref:", "global", "tax_divisors", "UAE">>
    /\ calls[1].walked
    /\ calls[2].ref = <<"$ref:", "brand", "rates">>
    /\ calls[2].raised
    /\ calls[3].ref = calls[1].ref
    /\ calls[3].value = Leaf(105)
    /\ ~calls[3].walked

\* --------------------------------------------------------- formula evaluation
\* A text made of numbers, the operators + - * / and parentheses only.
ArithmeticOnly(text) ==
    \A k \in 1..Len(text) :
        IsNumberToken(text[k]) \/ text[k] \in {"+", "-", "*", "/", "(", ")"}

\* C19 (as claimed): a post-substitution text is given a value only if it is
\* made of numbers, + - * / and parentheses; any text with another token
\* yields None with one WARNING.
C19_ArithmeticOnly ==
    \A n \in 1..Len(calls) :
        ~ArithmeticOnly(calls[n].text) =>
            /\ calls[n].value = None
            /\ Len(calls[n].entries) = 1
            /\ calls[n].entries[1].severity = WARNING

\* -------------------------------------------------------------- config loading
\* C20 (as claimed): the construction of a FieldMapping of a non-static type
\* fails when the sub-config of that type is absent, so every constructed
\* mapping of such a type carries its sub-config.
C20_SubConfigRequired ==
    (outcome = "constructed" /\ brand_config.type # "static") =>
        TypeConfigMap(brand_config.type) \in brand_config.given

\* --------------------------------------------------------------- step metrics
\* The ledger entries of severity `severity` recorded during execute call k.
EntriesOf(k, severity) ==
    SelectSeq(calls[k].entries, LAMBDA e : e.severity = severity)

\* C21 (as claimed): in the returned result, the k-th step result reports an
\* error count and a warning count equal to the numbers of ERROR and WARNING
\* entries recorded while step k was executing.
C21_StepCounts ==
    pc = "Done" =>
        \A k \in 1..Len(result.step_results) :
            /\ ErrorCount(result.step_results[k]) = Len(EntriesOf(k, ERROR))
            /\ WarningCount(result.step_results[k]) = Len(EntriesOf(k, WARNING))

\* -------------------------------------------------------- runs of one engine
\* The number of ledger entries the current run has recorded: those of schema
\* validation, of the execute calls, and the one of the exit taken.
EntriesThisRun ==
    LET sum[k \in 0..Len(calls)] ==
            IF k = 0 THEN 0 ELSE sum[k - 1] + Len(calls[k].entries)
    IN  Len(MissingRequired) + Len(MissingOptional) + sum[Len(calls)]
        + (IF outcome \in {"step_abort", "zero_rows"} THEN 1
           ELSE IF outcome = "complete" /\ Len(MissingOutput) > 0 THEN 1
           ELSE 0)

\* The markers the execute calls of the current run have resolved.
MarkersThisRun ==
    UNION {{RefParts(c.value.s) :
               c \in {c \in Range(ConditionsOf(k)) :
                         /\ HasColumn(calls[k].input, c.column)
                         /\ c.value.kind = "str"
                         /\ IsMarker(RefParts(c.value.s))}} :
           k \in {k \in 1..Len(calls) : calls[k].step = "filter"}}

\* C22: once a call of process has made its context, the ledger, the
\* quarantine set, the step results and the reference cache hold only what
\* this call recorded, whatever the earlier calls on the same engine left;
\* and a call returns the same result and table as every earlier call with
\* the same arguments, the first of which had no predecessor.
C22_FreshContext ==
    /\ pc # "Pending" =>
          /\ Len(context.log) = EntriesThisRun
          /\ Len(context.errors) + Len(context.warnings) = EntriesThisRun
          /\ Len(context.step_results) =
                Cardinality({k \in 1..Len(calls) : ~calls[k].raised})
          /\ context.quarantined_rows = QuarantinedBy(Len(calls))
          /\ DOMAIN context.ref_cache \subseteq MarkersThisRun
    /\ pc = "Done" =>
          \A r \in 1..Len(runs) :
              (runs[r].df = df /\ runs[r].brand_config = brand_config) =>
                  /\ result = runs[r].result
                  /\ output = runs[r].output
    /\ \A r \in 1..Len(runs) : \A q \in 1..Len(runs) :
          (runs[r].df = runs[q].df /\ runs[r].brand_config = runs[q].brand_config) =>
              /\ runs[r].result = runs[q].result
              /\ runs[r].output = runs[q].output

C22_Witness ==
    /\ Len(runs) = 1
    /\ pc = "Done"
    /\ Len(runs[1].context.errors) > 0
    /\ Len(runs[1].context.warnings) > 1
    /\ runs[1].context.quarantined_rows # {}
    /\ Len(runs[1].context.step_results) = 2
    /\ DOMAIN runs[1].context.ref_cache # {}
    /\ outcome = "complete"
    /\ Len(brand_config.pipeline) = 0
    /\ result.success
    /\ result.warnings = <<RowError(0, NoColumn, <<"Optional column not found: ", "z">>,
                                    WARNING)>>
    /\ result.step_results = <<>>
    /\ result.quarantined_rows = {}
    /\ context.ref_cache = <<>>

\* ------------------------------------------------------------ end-to-end runs
\* The index labels of the input rows that the filter (step 1) keeps, in
\* input order.
KeptLabels ==
    LET pick[j \in 0..NRows(df)] ==
            IF j = 0 THEN <<>>
            ELSE IF j \in Kept(1) THEN Append(pick[j - 1], df.rows[j].idx)
            ELSE pick[j - 1]
    IN  pick[NRows(df)]

\* The returned table has the declared columns in declared order and one row
\* per kept input row, in input order, holding what the transform step made
\* of that row; the result counts these rows and reports success.
ReturnsKeptRows ==
    /\ output # NoTable
    /\ output.columns = brand_config.output_columns
    /\ Labels(output) = KeptLabels
    /\ \A j \in 1..NRows(output) :
          \A c \in Range(brand_config.output_columns) :
              output.rows[j].vals[c] = calls[2].returned.rows[j].vals[c]
    /\ result.output_rows = Len(KeptLabels)
    /\ result.success = TRUE

FilterColumnsPresent ==
    \A m \in 1..Len(ConditionsOf(1)) : HasColumn(df, ConditionsOf(1)[m].column)

NullRows(n, column) ==
    {j \in 1..NRows(calls[n].input) : IsEmpty(calls[n].input.rows[j].vals[column])}

\* C24 (as claimed): a filter whose one condition is is_null keeps exactly
\* the rows whose value in the column is null, empty or blank, and one whose
\* condition is is_not_null exactly the others, whatever the column holds and
\* whether or not the condition is case-sensitive.
C24_NullOperators ==
    \A n \in FilterCalls :
        LET condition == ConditionsOf(n)[1]
        IN  /\ condition.operator = "is_null" =>
                  IsSelection(calls[n].returned, calls[n].input,
                              NullRows(n, condition.column))
            /\ condition.operator = "is_not_null" =>
                  IsSelection(calls[n].returned, calls[n].input,
                              (1..NRows(calls[n].input)) \ NullRows(n, condition.column))

\* -------------------------------------------------- sparse aggregation runs
\* The positions of the non-null values of a series.
NonNull(series) == {m \in 1..Len(series) : ~IsNull(series[m])}

\* C25: in an aggregate call, the value of a first_non_null rule for a group
\* is the source value of the first row of the group, in input order, that
\* is not null; it is null exactly when every source value of the group is
\* null.
C25_FirstNonNull ==
    \A n \in AggregateCalls :
        (HasColumn(calls[n].input, GroupBy(n)) /\ Len(ValidRules(n)) > 0) =>
            \A k \in 1..Len(ValidRules(n)) :
                ValidRules(n)[k].function = "first_non_null" =>
                    \A j \in 1..NRows(calls[n].returned) :
                        LET value == calls[n].returned.rows[j].vals[ValidRules(n)[k].name]
                            series == MemberValues(n,
                                         calls[n].returned.rows[j].vals[GroupBy(n)],
                                         ValidRules(n)[k])
                        IN  /\ Len(series) > 0
                            /\ IF NonNull(series) = {}
                               THEN IsNull(value)
                               ELSE /\ ~IsNull(value)
                                    /\ \E m \in NonNull(series) :
                                          /\ value = series[m]
                                          /\ \A q \in NonNull(series) : m <= q

C25_Witness ==
    \E n \in AggregateCalls :
        /\ NRows(calls[n].input) = 3
        /\ calls[n].input.rows[1].vals["a"] = NaN
        /\ calls[n].input.rows[2].vals["a"] = Num(2)
        /\ calls[n].input.rows[3].vals["a"] = NaN
        /\ calls[n].input.rows[3].vals["k"] = Num(2)
        /\ NRows(calls[n].returned) = 2
        /\ calls[n].returned.rows[1].vals["f"] = Num(2)
        /\ calls[n].returned.rows[2].vals["f"] = NaN

\* ------------------------------------------------------- phone formatting runs
\* The number a phone text is cleaned to: without its blanks and dashes,
\* without ".0", and without a leading "+" and a leading "00".
Cleaned(chars) ==
    LET digits == Remove(SelectSeq(chars, LAMBDA c : c \notin {" ", "-"}), <<".", "0">>)
        a == IF Len(digits) > 0 /\ digits[1] = "+"
             THEN SubSeq(digits, 2, Len(digits)) ELSE digits
    IN  IF Len(a) > 1 /\ a[1] = "0" /\ a[2] = "0" THEN SubSeq(a, 3, Len(a)) ELSE a

\* The rules whose patterns match the country whatever the case.
RulesFor(country) ==
    {r \in Range(CountryPhoneCodes) :
        \E k \in 1..Len(r.patterns) :
            UpperText(r.patterns[k]) = StripText(UpperText(PyStr(country)))}

\* The last n characters of a text, the whole text when it is shorter.
LastChars(chars, n) ==
    IF Len(chars) <= n THEN chars ELSE SubSeq(chars, Len(chars) - n + 1, Len(chars))

\* C26: with a phone configuration and a phone value, the transformer yields
\* the matching rule's code followed by the last N characters of the cleaned
\* number (all of it when shorter), or the cleaned number alone when no rule
\* matches the country; "0501234567" in the United Arab Emirates gives
\* "+971501234567" and "551234567" in Saudi Arabia "+966551234567".
C26_PhoneFormat ==
    \A n \in 1..Len(calls) :
        (Len(brand_config.phone) > 0 /\ calls[n].phone.kind = "text") =>
            /\ calls[n].value.kind = "text"
            /\ IF RulesFor(calls[n].country) = {}
               THEN calls[n].value.chars = Cleaned(calls[n].phone.chars)
               ELSE \E r \in RulesFor(calls[n].country) :
                       calls[n].value.chars =
                          r.code \o LastChars(Cleaned(calls[n].phone.chars), r.digits_to_keep)
            /\ (/\ calls[n].country = Str("United Arab Emirates")
                /\ calls[n].phone = Text(<<"0", "5", "0", "1", "2", "3", "4", "5", "6", "7">>)) =>
                   calls[n].value =
                      Text(<<"+", "9", "7", "1", "5", "0", "1", "2", "3", "4", "5", "6", "7">>)
            /\ (/\ calls[n].country = Str("Saudi Arabia")
                /\ calls[n].phone = Text(<<"5", "5", "1", "2", "3", "4", "5", "6", "7">>)) =>
                   calls[n].value =
                      Text(<<"+", "9", "6", "6", "5", "5", "1", "2", "3", "4", "5", "6", "7">>)

C26_Witness ==
    /\ Len(brand_config.phone) > 0
    /\ Len(calls) = 2
    /\ calls[1].country = Str("united arab emirates")
    /\ calls[1].phone =
          Text(<<"+", "9", "7", "1", " ", "5", "0", "-", "1", "2", "3", "-", "4", "5", "6", "7">>)
    /\ calls[1].value =
          Text(<<"+", "9", "7", "1", "5", "0", "1", "2", "3", "4", "5", "6", "7">>)
    /\ calls[2].country = Str("France")
    /\ calls[2].phone = Text(<<"1", "2", "-", "3", "4">>)
    /\ calls[2].value = Text(<<"1", "2", "3", "4">>)

\* ------------------------------------------------------------- step metrics
\* C27: the step results of a finished run form a chain: the first one's
\* input_rows is the result's input_rows, each later one's input_rows is the
\* previous one's output_rows, filtered_rows is input_rows minus output_rows,
\* no built-in step puts out more rows than it took in, and the result's
\* output_rows is at most its input_rows and is the row count of the returned
\* table (0 for none).
C27_MetricsChain ==
    pc = "Done" =>
        LET steps == result.step_results
        IN  /\ Len(steps) > 0 => steps[1].input_rows = result.input_rows
            /\ \A n \in 2..Len(steps) : steps[n].input_rows = steps[n - 1].output_rows
            /\ \A n \in 1..Len(steps) :
                   /\ steps[n].filtered_rows = steps[n].input_rows - steps[n].output_rows
                   /\ steps[n].step_name \in StepExecutors =>
                          steps[n].output_rows <= steps[n].input_rows
            /\ result.output_rows <= result.input_rows
            /\ result.output_rows = (IF output = NoTable THEN 0 ELSE NRows(output))

\* The execute calls that returned, in call order.
ReturnedCalls == SelectSeq(calls, LAMBDA c : ~c.raised)

\* C28: the step results of a finished run are the steps that returned, in
\* execution order: a step that raised or whose type is unknown has none and
\* ends the list, a step that returned no rows has one and ends the list, and
\* a schema abort leaves the list empty.
C28_StepResultsAreReturnedSteps ==
    pc = "Done" =>
        LET steps == result.step_results
        IN  /\ Len(steps) = Len(ReturnedCalls)
            /\ \A n \in 1..Len(steps) :
                   /\ ReturnedCalls[n].position = n
                   /\ steps[n].step_name = brand_config.pipeline[n].step
                   /\ steps[n].step_name = ReturnedCalls[n].step
                   /\ steps[n].input_rows = NRows(ReturnedCalls[n].input)
                   /\ steps[n].output_rows = NRows(ReturnedCalls[n].returned)
            /\ outcome = "schema_abort" => steps = <<>>
            /\ outcome = "step_abort" =>
                   /\ Len(steps) = i - 1
                   /\ \/ brand_config.pipeline[i].step \notin StepExecutors
                      \/ calls[Len(calls)].raised /\ calls[Len(calls)].position = i
            /\ outcome = "zero_rows" =>
                   /\ Len(steps) = i
                   /\ steps[i].output_rows = 0
                   /\ \A n \in 1..(i - 1) : steps[n].output_rows > 0
            /\ outcome = "complete" =>
                   /\ Len(steps) = Len(brand_config.pipeline)
                   /\ \A n \in 1..Len(steps) : steps[n].output_rows > 0

C28_Witness ==
    /\ pc = "Done"
    /\ outcome = "step_abort"
    /\ Len(brand_config.pipeline) = 2
    /\ Len(calls) = 2
    /\ calls[2].raised
    /\ Len(result.step_results) = 1
    /\ result.step_results[1].step_name # brand_config.pipeline[2].step

\* ------------------------------------------------------------ in-place runs
\* C29: process never modifies the caller's table: in every state of a run it
\* has the columns, rows and values it was passed with.
C29_InputUntouched == df = given

\* A finished run whose identity filter handed its input on to an aggregation
\* that coerced column a of it, and whose missing output column was filled.
C29_Witness ==
    /\ pc = "Done"
    /\ outcome = "complete"
    /\ Len(calls) = 2
    /\ calls[1].step = "filter"
    /\ calls[1].returned = calls[1].input
    /\ calls[2].step = "aggregate"
    /\ calls[2].input = given
    /\ InputAfter("aggregate", calls[2].input, brand_config.pipeline[2].config) # given
    /\ HasColumn(output, "z")
    /\ current_ref = "step"

\* --------------------------------------------------------------- ledger runs
\* How often an entry occurs in a list.
Occurrences(q, e) == Cardinality({k \in 1..Len(q) : q[k] = e})

\* C30: the ledger is partitioned by severity: the errors list holds ERROR and
\* CRITICAL entries only, the warnings list INFO and WARNING entries only, and
\* every recorded entry is in exactly one of them; a quarantine_row call adds
\* its index to the quarantine set and one WARNING entry to the warnings, and
\* nothing to the errors.
C30_LedgerPartition ==
    /\ \A k \in 1..Len(context.errors) : context.errors[k].severity \in {ERROR, CRITICAL}
    /\ \A k \in 1..Len(context.warnings) : context.warnings[k].severity \in {INFO, WARNING}
    /\ Len(context.errors) + Len(context.warnings) = Len(context.log)
    /\ \A k \in 1..Len(context.log) :
          Occurrences(context.errors, context.log[k])
            + Occurrences(context.warnings, context.log[k])
          = Occurrences(context.log, context.log[k])
    /\ \A n \in 1..Len(calls) :
          ("op" \in DOMAIN calls[n] /\ calls[n].op = "quarantine_row") =>
              LET before == calls[n].before
                  after == calls[n].after
              IN  /\ after.quarantined_rows = before.quarantined_rows \cup {calls[n].row_index}
                  /\ after.errors = before.errors
                  /\ Len(after.warnings) = Len(before.warnings) + 1
                  /\ SubSeq(after.warnings, 1, Len(before.warnings)) = before.warnings
                  /\ after.warnings[Len(after.warnings)].severity = WARNING
                  /\ after.warnings[Len(after.warnings)].row_index = calls[n].row_index

C30_Witness ==
    /\ Len(calls) = 3
    /\ calls[1].op = "add_error" /\ calls[1].severity = INFO
    /\ calls[2].op = "quarantine_row" /\ calls[2].row_index = 1
    /\ calls[3].op = "add_error" /\ calls[3].severity = CRITICAL
    /\ Len(context.warnings) = 2
    /\ Len(context.errors) = 1
    /\ context.quarantined_rows = {1}

====
